---- MODULE Spec2Model ----
(***************************************************************************)
(* A model of the tentoku Japanese tokenizer: text normalisation with its  *)
(* offset map, text variations, yoon detection, deinflection, dictionary   *)
(* lookup, result sorting, the backtracking word search and the tokenizer  *)
(* driver.                                                                 *)
(*                                                                         *)
(* Texts are Python str values: sequences of code points (integers).  A    *)
(* Python list l is the TLA+ sequence whose element k+1 is l[k].           *)
(***************************************************************************)
EXTENDS Integers, Sequences, FiniteSets, TLC

VARIABLES nz, ws, tk, df, dc, fn

vars == <<nz, ws, tk, df, dc, fn>>

(***************************************************************************)
(* Bounds of the model.                                                    *)
(***************************************************************************)
\* longest input text of the normaliser
MaxNormLen == 4
\* largest value an out-of-bounds list read is taken to yield
MaxGarbage == 2
\* most pieces a word handed to deinflect is made of
MaxMorphemes == 3
\* most pieces an input of word_search is made of
MaxSearchPieces == 2

(***************************************************************************)
(* Code points used by the model.                                          *)
(***************************************************************************)
Ch == [ zwnj    |-> 8204,    \* U+200C zero-width non-joiner
        digit1  |-> 49,      \* U+0031 '1'
        fw1     |-> 65297,   \* U+FF11 full-width '1'
        ka      |-> 12363,   \* U+304B
        ga      |-> 12364,   \* U+304C = U+304B U+3099 composed
        he      |-> 12408,   \* U+3078
        be      |-> 12409,   \* U+3079 = U+3078 U+3099 composed
        HE      |-> 12504,   \* U+30D8 katakana
        BE      |-> 12505,   \* U+30D9 katakana = U+30D8 U+3099 composed
        dakuten |-> 12441,   \* U+3099 combining voiced sound mark
        qa      |-> 2392,    \* U+0958, a composition exclusion
        deva_ka |-> 2325,    \* U+0915
        nukta   |-> 2364,    \* U+093C
        ni      |-> 12395,   \* U+306B
        ta      |-> 12383,   \* U+305F
        ru      |-> 12427,   \* U+308B
        shikaru |-> 134047,  \* U+20B9F, outside the BMP
        ma      |-> 12414,   \* U+307E
        shi     |-> 12375,   \* U+3057
        su      |-> 12377,   \* U+3059
        ra      |-> 12425,   \* U+3089
        re      |-> 12428,   \* U+308C
        sa      |-> 12373,   \* U+3055
        se      |-> 12379,   \* U+305B
        ki      |-> 12365,   \* U+304D
        ku      |-> 12367,   \* U+304F
        i       |-> 12356,   \* U+3044
        na      |-> 12394,   \* U+306A
        TA      |-> 12479,   \* U+30BF katakana
        choon   |-> 12540,   \* U+30FC
        a       |-> 12354,   \* U+3042
        ya_s    |-> 12419,   \* U+3083 small ya
        taberu  |-> 39135,   \* U+98DF
        nimotsu |-> 33655,   \* U+8377
        nibe    |-> 39864,   \* U+9BB8
        kyuu    |-> 33290,   \* U+820A
        shin    |-> 26087,   \* U+65E7
        niru    |-> 20284,   \* U+4F3C
        hokke   |-> 171581,  \* U+29E3D, outside the BMP
        ho      |-> 12411,   \* U+307B
        tsu_s   |-> 12387,   \* U+3063 small tsu
        ke      |-> 12369,   \* U+3051
        te      |-> 12390,   \* U+3066
        two     |-> 20108,   \* U+4E8C
        two_old |-> 24336,   \* U+5F10, formal variant of U+4E8C
        colon   |-> 58,      \* U+003A ':'
        digit0  |-> 48,      \* U+0030 '0'
        digit2  |-> 50,      \* U+0032 '2'
        N       |-> 78,      \* U+004E 'N'
        o       |-> 111,     \* U+006F 'o'
        n       |-> 110,     \* U+006E 'n'
        e       |-> 101      \* U+0065 'e'
      ]

\* Number of UTF-16 code units of one code point.
Utf16Units(c) == IF c > 65535 THEN 2 ELSE 1

RECURSIVE Utf16Len(_)
Utf16Len(text) ==
    IF text = <<>> THEN 0 ELSE Utf16Units(Head(text)) + Utf16Len(Tail(text))

\* The UTF-16 code units of a text: a surrogate pair for a code point outside
\* the BMP.
RECURSIVE Utf16Encode(_)
Utf16Encode(text) ==
    IF text = <<>> THEN <<>>
    ELSE LET c == Head(text)
         IN  (IF c > 65535
              THEN <<55296 + ((c - 65536) \div 1024), 56320 + ((c - 65536) % 1024)>>
              ELSE <<c>>) \o Utf16Encode(Tail(text))

\* Python's l[k] on a list l.
At(l, k) == l[k + 1]

\* Python's s[a:b] for 0 <= a, with b clipped to len(s).
Slice(s, a, b) ==
    LET hi == IF b > Len(s) THEN Len(s) ELSE b
    IN  IF a >= hi THEN <<>> ELSE [k \in 1..(hi - a) |-> s[a + k]]

\* l[-1] compiled with wraparound=False and boundscheck=False: the read is
\* outside the list; garbage is what it yields.
LastUnchecked(l, garbage) == garbage

(***************************************************************************)
(* normalize_cy.pyx                                                        *)
(***************************************************************************)
half_to_full_width_num(text) ==
    [k \in 1..Len(text) |->
        IF 48 <= text[k] /\ text[k] <= 57 THEN text[k] - 48 + 65296 ELSE text[k]]

\* unicodedata.normalize('NFC', text), on the code points of Ch: canonical
\* decomposition followed by canonical composition.  U+0958 is excluded from
\* composition, so it stays decomposed.
RECURSIVE NfcDecompose(_)
NfcDecompose(text) ==
    IF text = <<>> THEN <<>>
    ELSE LET c == Head(text)
             d == CASE c = Ch.ga -> <<Ch.ka, Ch.dakuten>>
                    [] c = Ch.be -> <<Ch.he, Ch.dakuten>>
                    [] c = Ch.BE -> <<Ch.HE, Ch.dakuten>>
                    [] c = Ch.qa -> <<Ch.deva_ka, Ch.nukta>>
                    [] OTHER     -> <<c>>
         IN  d \o NfcDecompose(Tail(text))

NfcComposable(c) == c \in {Ch.ka, Ch.he, Ch.HE}

NfcComposed(c) == CASE c = Ch.ka -> Ch.ga
                    [] c = Ch.he -> Ch.be
                    [] c = Ch.HE -> Ch.BE
                    [] OTHER     -> c

RECURSIVE NfcCompose(_, _)
NfcCompose(text, out) ==
    IF text = <<>> THEN out
    ELSE LET c == Head(text)
         IN  IF /\ c = Ch.dakuten
                /\ out # <<>>
                /\ NfcComposable(out[Len(out)])
             THEN NfcCompose(Tail(text),
                             [out EXCEPT ![Len(out)] = NfcComposed(out[Len(out)])])
             ELSE NfcCompose(Tail(text), Append(out, c))

NFC(text) == NfcCompose(NfcDecompose(text), <<>>)

\* The while loop of to_normalized: i walks the code points of normalized,
\* original_pos is appended once per UTF-16 unit of the code point.
RECURSIVE ToNormalizedLoop(_, _, _, _)
ToNormalizedLoop(normalized, i, original_pos, input_lengths) ==
    IF i < Len(normalized)
    THEN LET char_len == IF At(normalized, i) > 65535 THEN 2 ELSE 1
         IN  ToNormalizedLoop(normalized, i + 1, original_pos + 1,
                 input_lengths \o [k \in 1..char_len |-> original_pos])
    ELSE Append(input_lengths, original_pos)

to_normalized(text) ==
    LET normalized == NFC(text)
    IN  IF normalized = <<>>
        THEN [normalized |-> normalized, input_lengths |-> <<0>>]
        ELSE [normalized |-> normalized,
              input_lengths |-> ToNormalizedLoop(normalized, 0, 0, <<>>)]

\* The for loop of do_strip_zwnj over enumerate(normalized).
RECURSIVE StripLoop(_, _, _, _, _, _, _)
StripLoop(normalized, input_lengths, i, result, new_lengths, last, garbage) ==
    IF i >= Len(normalized)
    THEN [result |-> result, new_lengths |-> new_lengths, last |-> last]
    ELSE IF At(normalized, i) # Ch.zwnj
         THEN StripLoop(normalized, input_lengths, i + 1,
                  Append(result, At(normalized, i)),
                  IF i < Len(input_lengths)
                      THEN Append(new_lengths, At(input_lengths, i))
                      ELSE new_lengths,
                  IF i + 1 < Len(input_lengths)
                      THEN At(input_lengths, i + 1)
                      ELSE LastUnchecked(input_lengths, garbage),
                  garbage)
         ELSE StripLoop(normalized, input_lengths, i + 1,
                  result, new_lengths, last, garbage)

do_strip_zwnj(normalized, input_lengths, garbage) ==
    LET r == StripLoop(normalized, input_lengths, 0, <<>>, <<>>, 0, garbage)
    IN  [normalized |-> r.result,
         input_lengths |-> IF r.last # 0 THEN Append(r.new_lengths, r.last)
                                         ELSE r.new_lengths]

normalize_input(input_text, make_numbers_full_width, strip_zwnj, garbage) ==
    IF input_text = <<>>
    THEN [normalized |-> <<>>, input_lengths |-> <<0>>]
    ELSE LET widened == IF make_numbers_full_width
                            THEN half_to_full_width_num(input_text)
                            ELSE input_text
             n1 == to_normalized(widened)
             n2 == IF strip_zwnj
                       THEN do_strip_zwnj(n1.normalized, n1.input_lengths, garbage)
                       ELSE n1
         IN  [normalized |-> n2.normalized,
              input_lengths |-> IF n2.input_lengths = <<>> THEN <<0>>
                                                           ELSE n2.input_lengths]

kana_to_hiragana(text) ==
    [k \in 1..Len(text) |->
        LET code == text[k]
        IN  CASE 12449 <= code /\ code <= 12534 -> code - 12448 + 12352
              [] code = 12535 -> 12431
              [] code = 12536 -> 12432
              [] code = 12537 -> 12433
              [] code = 12538 -> 12434
              [] OTHER -> code]

(***************************************************************************)
(* sorting_cy.pyx.  A priority tag is [name, nf]: name is the tag, or "nf" *)
(* with the number of an nfNN tag in nf.  A reading's priority and info    *)
(* are the sequences obtained by splitting the stored string at commas.    *)
(***************************************************************************)
Tag(name) == [name |-> name, nf |-> 0]
NfTag(n) == [name |-> "nf", nf |-> n]

PRIORITY_ASSIGNMENTS(code) ==
    CASE code = "i1" -> 50
      [] code = "i2" -> 20
      [] code = "n1" -> 40
      [] code = "n2" -> 20
      [] code = "s1" -> 32
      [] code = "s2" -> 20
      [] code = "g1" -> 30
      [] code = "g2" -> 15
      [] OTHER -> 0

ShortCodes == {"i1", "i2", "n1", "n2", "s1", "s2", "g1", "g2"}

PRIORITY_MAP(name) ==
    CASE name = "ichi1" -> "i1"
      [] name = "ichi2" -> "i2"
      [] name = "news1" -> "n1"
      [] name = "news2" -> "n2"
      [] name = "spec1" -> "s1"
      [] name = "spec2" -> "s2"
      [] name = "gai1" -> "g1"
      [] name = "gai2" -> "g2"
      [] OTHER -> name

normalize_priority(priority) ==
    IF priority.name \in ShortCodes THEN priority
    ELSE [priority EXCEPT !.name = PRIORITY_MAP(priority.name)]

\* int(48 - wordfreq / 2) with true division: 48 minus wordfreq/2 rounded up.
get_priority_score(priority) ==
    LET normalized == normalize_priority(priority)
    IN  IF normalized.name \in ShortCodes
        THEN PRIORITY_ASSIGNMENTS(normalized.name)
        ELSE IF normalized.name = "nf" /\ 0 < normalized.nf /\ normalized.nf < 48
             THEN 48 - ((normalized.nf + 1) \div 2)
             ELSE 0

\* sorted(scores, reverse=True)
RECURSIVE InsertDesc(_, _)
InsertDesc(sorted, x) ==
    IF sorted = <<>> THEN <<x>>
    ELSE IF x > Head(sorted) THEN <<x>> \o sorted
         ELSE <<Head(sorted)>> \o InsertDesc(Tail(sorted), x)

RECURSIVE SortedDesc(_)
SortedDesc(scores) ==
    IF scores = <<>> THEN <<>>
    ELSE InsertDesc(SortedDesc(Tail(scores)), Head(scores))

RECURSIVE Pow10(_)
Pow10(n) == IF n = 0 THEN 1 ELSE 10 * Pow10(n - 1)

RECURSIVE ScaledSum(_, _)
ScaledSum(scores, n) ==
    IF scores = <<>> THEN 0
    ELSE Head(scores) * Pow10(n) + ScaledSum(Tail(scores), n - 1)

\* int(get_priority_sum(priorities)): scores[0] + scores[i] / 10^i summed,
\* truncated to an integer, as get_priority uses it.
get_priority_sum(priorities) ==
    IF priorities = <<>> THEN 0
    ELSE LET scores == SortedDesc([k \in 1..Len(priorities) |->
                                      get_priority_score(priorities[k])])
             n == Len(scores) - 1
         IN  ScaledSum(scores, n) \div Pow10(n)

MaxOf(S) == CHOOSE x \in S : \A y \in S : y <= x

get_priority(entry) ==
    MaxOf({0}
          \cup {get_priority_sum(entry.kanji_readings[k].priority) :
                   k \in {j \in 1..Len(entry.kanji_readings) :
                            /\ entry.kanji_readings[j].match_range # <<>>
                            /\ entry.kanji_readings[j].priority # <<>>}}
          \cup {get_priority_sum(entry.kana_readings[k].priority) :
                   k \in {j \in 1..Len(entry.kana_readings) :
                            /\ entry.kana_readings[j].match_range # <<>>
                            /\ entry.kana_readings[j].priority # <<>>}})

SeqHas(seq, S) == \E k \in 1..Len(seq) : seq[k] \in S

get_kana_headword_type(entry) ==
    LET matched == {k \in 1..Len(entry.kana_readings) :
                       entry.kana_readings[k].match_range # <<>>}
    IN  IF matched = {} THEN 1
        ELSE
        LET matching_kana == entry.kana_readings[CHOOSE k \in matched :
                                                    \A j \in matched : k <= j]
            is_reading_obscure == SeqHas(matching_kana.info, {"ok", "rk", "sk", "ik"})
            all_kanji_obscure ==
                \A k \in 1..Len(entry.kanji_readings) :
                    SeqHas(entry.kanji_readings[k].info, {"rK", "sK", "iK"})
            matched_en_senses ==
                {k \in 1..Len(entry.senses) :
                    \/ entry.senses[k].glosses = <<>>
                    \/ SeqHas(entry.senses[k].glosses, {"none", "eng", "en"})}
            uk_en_sense_count ==
                Cardinality({k \in matched_en_senses :
                                SeqHas(entry.senses[k].misc, {"uk"})})
        IN  IF is_reading_obscure THEN 2
            ELSE IF entry.kanji_readings = <<>> THEN 1
            ELSE IF all_kanji_obscure THEN 1
            ELSE IF /\ matched_en_senses # {}
                    /\ 2 * uk_en_sense_count >= Cardinality(matched_en_senses)
                 THEN 1
            ELSE IF matching_kana.no_kanji THEN 1
            ELSE 2

\* max(len(chain) for chain in result.reason_chains), 0 without chains.
ReasonSteps(result) ==
    IF result.reason_chains = <<>> THEN 0
    ELSE MaxOf({Len(result.reason_chains[k]) : k \in 1..Len(result.reason_chains)})

\* sort_meta[entry_id] after the first loop: the metadata of the last result
\* of the list that carries this entry_id.
SortMeta(results, entry_id) ==
    LET last == CHOOSE k \in 1..Len(results) :
                    /\ results[k].entry.entry_id = entry_id
                    /\ \A j \in (k + 1)..Len(results) :
                           results[j].entry.entry_id # entry_id
        r == results[last]
    IN  [reasons |-> ReasonSteps(r),
         type |-> get_kana_headword_type(r.entry),
         priority |-> get_priority(r.entry)]

\* sort_key with the match length as first criterion (longest match first)
sort_key_LongestFirst(results, result) ==
    LET meta == SortMeta(results, result.entry.entry_id)
    IN  <<0 - result.match_len, meta.reasons, meta.type, 0 - meta.priority>>

\* lines 261-267
sort_key(results, result) ==
    LET meta == SortMeta(results, result.entry.entry_id)
    IN  <<meta.reasons, meta.type, 0 - meta.priority>>

\* Python's ordering of tuples of integers of one length.
RECURSIVE TupleLess(_, _)
TupleLess(a, b) ==
    IF a = <<>> THEN FALSE
    ELSE IF Head(a) # Head(b) THEN Head(a) < Head(b)
         ELSE TupleLess(Tail(a), Tail(b))

\* sorted(results, key=...) is stable: x goes behind every element whose key
\* is not greater than its own.
RECURSIVE InsertByKey(_, _, _)
InsertByKey(sorted, x, all) ==
    IF sorted = <<>> THEN <<x>>
    ELSE IF TupleLess(sort_key(all, x), sort_key(all, Head(sorted)))
         THEN <<x>> \o sorted
         ELSE <<Head(sorted)>> \o InsertByKey(Tail(sorted), x, all)

RECURSIVE SortedPrefix(_, _)
SortedPrefix(results, n) ==
    IF n = 0 THEN <<>>
    ELSE InsertByKey(SortedPrefix(results, n - 1), results[n], results)

sort_word_results(results) == SortedPrefix(results, Len(results))

(***************************************************************************)
(* variations_cy.pyx                                                       *)
(***************************************************************************)
CHOON == <<12540>>

\* The entries of KYUUJITAI_TO_SHINJITAI the model's texts can hit.
KYUUJITAI_TO_SHINJITAI(char) ==
    CASE char = 33290 -> 26087     \* U+820A -> U+65E7
      [] char = 39636 -> 20307     \* U+9AD4 -> U+4F53
      [] char = 22283 -> 22269     \* U+570B -> U+56FD
      [] OTHER -> char

expand_choon(text) ==
    LET at == {k \in 1..Len(text) : text[k] = CHOON[1]}
    IN  IF at = {} THEN <<>>
        ELSE LET first_pos == CHOOSE k \in at : \A j \in at : k <= j
                 vowels == <<12354, 12356, 12358, 12360, 12362>>
             IN  [v \in 1..5 |-> [text EXCEPT ![first_pos] = vowels[v]]]

kyuujitai_to_shinjitai(text) ==
    [k \in 1..Len(text) |-> KYUUJITAI_TO_SHINJITAI(text[k])]

(***************************************************************************)
(* yoon_cy.pyx                                                             *)
(***************************************************************************)
YOON_START == {12365, 12375, 12385, 12395, 12402, 12415, 12426, 12366,
               12376, 12403, 12404}

SMALL_Y == {12419, 12421, 12423}

ends_in_yoon(input_text) ==
    LET length == Len(input_text)
    IN  IF length < 2 THEN FALSE
        ELSE IF At(input_text, length - 1) \notin SMALL_Y THEN FALSE
        ELSE At(input_text, length - 2) \in YOON_START

(***************************************************************************)
(* _types.py: WordType is a bit mask, kept as the set of its bit numbers;  *)
(* a Reason is its name.                                                   *)
(***************************************************************************)
WordType == [ IchidanVerb     |-> {0},
              GodanVerb       |-> {1},
              IAdj            |-> {2},
              KuruVerb        |-> {3},
              SuruVerb        |-> {4},
              SpecialSuruVerb |-> {5},
              NounVS          |-> {6},
              All             |-> 0..6,
              Initial         |-> {7},
              TaTeStem        |-> {8},
              DaDeStem        |-> {9},
              MasuStem        |-> {10},
              IrrealisStem    |-> {11} ]

\* 0xffff
Mask16 == 0..15

(***************************************************************************)
(* deinflect_rules.py: rules of the table, longest ending first.           *)
(***************************************************************************)
Rule(from, to, fromType, toType, reasons) ==
    [from |-> from, to |-> to, fromType |-> fromType, toType |-> toType,
     reasons |-> reasons]

IchidanOrKuru == WordType.IchidanVerb \cup WordType.KuruVerb

DeinflectRules ==
    << Rule(<<Ch.sa, Ch.se, Ch.ra, Ch.re, Ch.ru>>, <<Ch.ru>>, WordType.IchidanVerb,
            IchidanOrKuru, <<"CausativePassive">>),
       Rule(<<Ch.na, Ch.sa, Ch.i>>, <<Ch.na, Ch.sa, Ch.ru>>, WordType.Initial,
            WordType.GodanVerb, <<"MasuStem">>),
       Rule(<<Ch.na, Ch.sa, Ch.i>>, <<Ch.na, Ch.sa, Ch.ru>>, WordType.Initial,
            WordType.GodanVerb, <<"Imperative">>),
       Rule(<<Ch.ma, Ch.shi, Ch.ta>>, <<>>, WordType.Initial, WordType.MasuStem,
            <<"PolitePast">>),
       Rule(<<Ch.ra, Ch.re, Ch.ru>>, <<Ch.ru>>, WordType.IchidanVerb, IchidanOrKuru,
            <<"PotentialOrPassive">>),
       Rule(<<Ch.sa, Ch.se, Ch.ru>>, <<Ch.ru>>, WordType.IchidanVerb, IchidanOrKuru,
            <<"Causative">>),
       Rule(<<Ch.ma, Ch.su>>, <<>>, WordType.Initial, WordType.MasuStem,
            <<"Polite">>),
       Rule(<<Ch.re, Ch.ru>>, <<>>, WordType.IchidanVerb, WordType.IrrealisStem,
            <<"Passive">>),
       Rule(<<Ch.se, Ch.ru>>, <<>>, WordType.IchidanVerb, WordType.IrrealisStem,
            <<"Causative">>),
       Rule(<<Ch.na, Ch.i>>, <<>>, WordType.IAdj, WordType.IrrealisStem,
            <<"Negative">>),
       Rule(<<Ch.ta>>, <<>>, WordType.Initial, WordType.TaTeStem,
            <<"Past">>),
       Rule(<<Ch.te>>, <<Ch.ru>>, WordType.Initial, IchidanOrKuru,
            <<"Te">>),
       Rule(<<Ch.te>>, <<>>, WordType.Initial, WordType.TaTeStem,
            <<"Te">>),
       Rule(<<Ch.ka>>, <<Ch.ku>>, WordType.IrrealisStem, WordType.GodanVerb,
            <<>>),
       Rule(<<Ch.ki>>, <<Ch.ku>>, WordType.MasuStem, WordType.GodanVerb,
            <<"MasuStem">>),
       Rule(<<Ch.i>>, <<Ch.ku>>, WordType.TaTeStem, WordType.GodanVerb,
            <<>>) >>

(***************************************************************************)
(* deinflect_cy.pyx, deinflect with the Python dict as result index.  The  *)
(* loop state is [result, result_index, i]; result_index maps a word to a  *)
(* Python index into result.                                               *)
(***************************************************************************)
Candidate(word, type, reason_chains) ==
    [word |-> word, type |-> type, reason_chains |-> reason_chains]

DictPut(d, key, value) ==
    [k \in DOMAIN d \cup {key} |-> IF k = key THEN value ELSE d[k]]

DeinflectStart(word) ==
    [result |-> << Candidate(word,
                       Mask16 \ (WordType.TaTeStem \cup WordType.DaDeStem
                                     \cup WordType.IrrealisStem),
                       <<>>) >>,
     result_index |-> [w \in {word} |-> 0],
     i |-> 0]

\* lines 55-62: masu-stem results of Ichidan verbs are not deinflected further
IsIchidanMasuStem(c) ==
    /\ c.type \cap WordType.IchidanVerb # {}
    /\ Len(c.reason_chains) = 1
    /\ Len(c.reason_chains[1]) = 1
    /\ c.reason_chains[1][1] = "MasuStem"

\* StemForward with the chains extended in place (reason_chains += reason on
\* the candidate's own list) instead of building a new list
StemForward_InPlace(st) ==
    LET this_candidate == At(st.result, st.i)
        word_type == this_candidate.type
    IN  IF word_type \cap (WordType.MasuStem \cup WordType.TaTeStem
                              \cup WordType.IrrealisStem) = {}
        THEN st
        ELSE
        LET reason == IF /\ word_type \cap WordType.MasuStem # {}
                         /\ this_candidate.reason_chains = <<>>
                      THEN << <<"MasuStem">> >> ELSE <<>>
            new_word == this_candidate.word \o <<Ch.ru>>
            extended == [st.result EXCEPT ![st.i + 1].reason_chains = @ \o reason]
            appended == Append(extended,
                            Candidate(new_word, IchidanOrKuru,
                                      this_candidate.reason_chains \o reason))
        IN  [st EXCEPT
                !.result = appended,
                !.result_index =
                    IF new_word \in DOMAIN st.result_index
                    THEN st.result_index
                    ELSE DictPut(st.result_index, new_word, Len(appended) - 1)]

\* lines 67-91: Ichidan stem forwarding
StemForward(st) ==
    LET this_candidate == At(st.result, st.i)
        word_type == this_candidate.type
    IN  IF word_type \cap (WordType.MasuStem \cup WordType.TaTeStem
                              \cup WordType.IrrealisStem) = {}
        THEN st
        ELSE
        LET reason == IF /\ word_type \cap WordType.MasuStem # {}
                         /\ this_candidate.reason_chains = <<>>
                      THEN << <<"MasuStem">> >> ELSE <<>>
            inapplicable_form ==
                /\ word_type \cap WordType.IrrealisStem # {}
                /\ Len(this_candidate.reason_chains) > 0
                /\ Len(this_candidate.reason_chains[1]) > 0
                /\ this_candidate.reason_chains[1][1]
                       \in {"Passive", "Causative", "CausativePassive"}
            new_word == this_candidate.word \o <<Ch.ru>>
            appended == Append(st.result,
                            Candidate(new_word, IchidanOrKuru,
                                      this_candidate.reason_chains \o reason))
        IN  IF inapplicable_form THEN st
            ELSE [st EXCEPT
                    !.result = appended,
                    !.result_index =
                        IF new_word \in DOMAIN st.result_index
                        THEN st.result_index
                        ELSE DictPut(st.result_index, new_word, Len(appended) - 1)]

SeqSet(seq) == {seq[k] : k \in 1..Len(seq)}

\* NewReasonChains without the special case of Causative over
\* PotentialOrPassive
NewReasonChains_NoFusion(chains, reasons) ==
    IF reasons = <<>> THEN chains
    ELSE IF chains = <<>> THEN <<reasons>>
    ELSE LET first_reason_chain == chains[1]
         IN  IF reasons[1] = "MasuStem" /\ first_reason_chain # <<>>
             THEN chains
             ELSE [chains EXCEPT ![1] = reasons \o @]

\* lines 140-165: the reason chains of a new candidate
NewReasonChains(chains, reasons) ==
    IF reasons = <<>> THEN chains
    ELSE IF chains = <<>> THEN <<reasons>>
    ELSE LET first_reason_chain == chains[1]
         IN  IF /\ reasons[1] = "Causative"
                /\ first_reason_chain # <<>>
                /\ first_reason_chain[1] = "PotentialOrPassive"
             THEN [chains EXCEPT ![1] = [@ EXCEPT ![1] = "CausativePassive"]]
             ELSE IF reasons[1] = "MasuStem" /\ first_reason_chain # <<>>
             THEN chains
             ELSE [chains EXCEPT ![1] = reasons \o @]

\* lines 128-134: the new word is indexed and the indexed candidate has the
\* rule's toType: the rule's reasons become one more chain of that candidate
MergeIntoExisting(st, new_word, rule) ==
    IF rule.reasons = <<>> THEN st
    ELSE [st EXCEPT !.result[st.result_index[new_word] + 1].reason_chains =
                        <<rule.reasons>> \o @]

\* ApplyRule with the rule's to appended to the whole word (the ending the
\* rule matched is not cut off)
ApplyRule_KeepsEnding(st, rule) ==
    LET this_candidate == At(st.result, st.i)
        word_text == this_candidate.word
        from_len == Len(rule.from)
    IN  IF from_len > Len(word_text) THEN st
        ELSE
        LET ending == Slice(word_text, Len(word_text) - from_len, Len(word_text))
            hiragana_ending == kana_to_hiragana(ending)
            new_word == word_text \o rule.to
            flat_reasons == UNION {SeqSet(this_candidate.reason_chains[k]) :
                                      k \in 1..Len(this_candidate.reason_chains)}
        IN  IF this_candidate.type \cap rule.fromType = {} THEN st
            ELSE IF ending # rule.from /\ hiragana_ending # rule.from THEN st
            ELSE IF new_word = <<>> THEN st
            ELSE IF flat_reasons \cap SeqSet(rule.reasons) # {} THEN st
            ELSE IF /\ new_word \in DOMAIN st.result_index
                    /\ At(st.result, st.result_index[new_word]).type = rule.toType
                 THEN MergeIntoExisting(st, new_word, rule)
            ELSE [st EXCEPT
                    !.result_index = DictPut(@, new_word, Len(st.result)),
                    !.result = Append(@,
                        Candidate(new_word, rule.toType,
                            NewReasonChains(this_candidate.reason_chains,
                                            rule.reasons)))]

\* lines 95-173: the body of the loops over rule groups and rules, for one rule
ApplyRule(st, rule) ==
    LET this_candidate == At(st.result, st.i)
        word_text == this_candidate.word
        from_len == Len(rule.from)
    IN  IF from_len > Len(word_text) THEN st
        ELSE
        LET ending == Slice(word_text, Len(word_text) - from_len, Len(word_text))
            hiragana_ending == kana_to_hiragana(ending)
            new_word == Slice(word_text, 0, Len(word_text) - from_len) \o rule.to
            flat_reasons == UNION {SeqSet(this_candidate.reason_chains[k]) :
                                      k \in 1..Len(this_candidate.reason_chains)}
        IN  IF this_candidate.type \cap rule.fromType = {} THEN st
            ELSE IF ending # rule.from /\ hiragana_ending # rule.from THEN st
            ELSE IF new_word = <<>> THEN st
            ELSE IF flat_reasons \cap SeqSet(rule.reasons) # {} THEN st
            ELSE IF /\ new_word \in DOMAIN st.result_index
                    /\ At(st.result, st.result_index[new_word]).type = rule.toType
                 THEN MergeIntoExisting(st, new_word, rule)
            ELSE [st EXCEPT
                    !.result_index = DictPut(@, new_word, Len(st.result)),
                    !.result = Append(@,
                        Candidate(new_word, rule.toType,
                            NewReasonChains(this_candidate.reason_chains,
                                            rule.reasons)))]

\* the rules in table order, each applied to the state its predecessor left
RECURSIVE ApplyRules(_, _)
ApplyRules(st, k) ==
    IF k > Len(DeinflectRules) THEN st
    ELSE CHOOSE out \in {ApplyRules(next, k + 1) :
                            next \in {ApplyRule(st, DeinflectRules[k])}} : TRUE

\* DeinflectIteration with the skip of an Ichidan masu stem taken without
\* i += 1
DeinflectIteration_SkipKeepsIndex(st) ==
    IF IsIchidanMasuStem(At(st.result, st.i))
    THEN st
    ELSE [ApplyRules(StemForward(st), 1) EXCEPT !.i = @ + 1]

\* lines 51-175: one iteration of the while loop
DeinflectIteration(st) ==
    IF IsIchidanMasuStem(At(st.result, st.i))
    THEN [st EXCEPT !.i = @ + 1]
    ELSE [ApplyRules(StemForward(st), 1) EXCEPT !.i = @ + 1]

RECURSIVE DeinflectLoop(_)
DeinflectLoop(st) ==
    IF st.i < Len(st.result) THEN DeinflectLoop(DeinflectIteration(st)) ELSE st

\* lines 177-183: intermediate forms are filtered out
RECURSIVE FilterCandidates(_)
FilterCandidates(result) ==
    IF result = <<>> THEN <<>>
    ELSE IF Head(result).type \cap WordType.All # {}
         THEN <<Head(result)>> \o FilterCandidates(Tail(result))
         ELSE FilterCandidates(Tail(result))

deinflect(word) == FilterCandidates(DeinflectLoop(DeinflectStart(word)).result)

(***************************************************************************)
(* deinflect_cy.pyx, deinflect with the C++ unordered_map as result index  *)
(* and the rules looked up by ending.  The map is keyed by the UTF-8 bytes *)
(* of a word, which are equal exactly when the words are.                  *)
(***************************************************************************)
\* line 286: the three code points of the literal appended by stem forwarding,
\* U+00E3 U+201A U+2039
ForwardedSuffix == <<227, 8218, 8249>>

\* the rules of one ending, in table order
rules_by_ending(ending) == SelectSeq(DeinflectRules, LAMBDA rule : rule.from = ending)

\* lines 270-298: Ichidan stem forwarding
StemForwardMap(st) ==
    LET this_candidate == At(st.result, st.i)
        word_type == this_candidate.type
    IN  IF word_type \cap (WordType.MasuStem \cup WordType.TaTeStem
                              \cup WordType.IrrealisStem) = {}
        THEN st
        ELSE
        LET reason == IF /\ word_type \cap WordType.MasuStem # {}
                         /\ this_candidate.reason_chains = <<>>
                      THEN << <<"MasuStem">> >> ELSE <<>>
            inapplicable_form ==
                /\ word_type \cap WordType.IrrealisStem # {}
                /\ Len(this_candidate.reason_chains) > 0
                /\ Len(this_candidate.reason_chains[1]) > 0
                /\ this_candidate.reason_chains[1][1]
                       \in {"Passive", "Causative", "CausativePassive"}
            new_word == this_candidate.word \o ForwardedSuffix
            appended == Append(st.result,
                            Candidate(new_word, IchidanOrKuru,
                                      this_candidate.reason_chains \o reason))
        IN  IF inapplicable_form THEN st
            ELSE [st EXCEPT
                    !.result = appended,
                    !.result_index =
                        IF new_word \in DOMAIN st.result_index
                        THEN st.result_index
                        ELSE DictPut(st.result_index, new_word, Len(appended) - 1)]

\* lines 310-315: the rules of the ending, then those of its hiragana form
MatchingRules(word_text, from_len) ==
    LET ending == Slice(word_text, Len(word_text) - from_len, Len(word_text))
        hiragana_ending == kana_to_hiragana(ending)
    IN  rules_by_ending(ending) \o
            (IF hiragana_ending # ending THEN rules_by_ending(hiragana_ending)
             ELSE <<>>)

\* lines 316-390: the body of the loop over the matching rules, for one rule
ApplyMatchingRule(st, rule) ==
    LET this_candidate == At(st.result, st.i)
        word_text == this_candidate.word
        new_word == Slice(word_text, 0, Len(word_text) - Len(rule.from)) \o rule.to
        flat_reasons == UNION {SeqSet(this_candidate.reason_chains[k]) :
                                  k \in 1..Len(this_candidate.reason_chains)}
    IN  IF this_candidate.type \cap rule.fromType = {} THEN st
        ELSE IF new_word = <<>> THEN st
        ELSE IF flat_reasons \cap SeqSet(rule.reasons) # {} THEN st
        ELSE IF /\ new_word \in DOMAIN st.result_index
                /\ At(st.result, st.result_index[new_word]).type = rule.toType
             THEN MergeIntoExisting(st, new_word, rule)
        ELSE [st EXCEPT
                !.result_index = DictPut(@, new_word, Len(st.result)),
                !.result = Append(@,
                    Candidate(new_word, rule.toType,
                        NewReasonChains(this_candidate.reason_chains,
                                        rule.reasons)))]

RECURSIVE ApplyMatchingRules(_, _, _)
ApplyMatchingRules(st, matching_rules, k) ==
    IF k > Len(matching_rules) THEN st
    ELSE CHOOSE out \in {ApplyMatchingRules(next, matching_rules, k + 1) :
                            next \in {ApplyMatchingRule(st, matching_rules[k])}} : TRUE

\* lines 305-390: the endings from the longest (at most 7) to the shortest
RECURSIVE ApplyByEnding(_, _)
ApplyByEnding(st, from_len) ==
    IF from_len = 0 THEN st
    ELSE CHOOSE out \in {ApplyByEnding(next, from_len - 1) :
                            next \in {ApplyMatchingRules(st,
                                          MatchingRules(At(st.result, st.i).word,
                                                        from_len), 1)}} : TRUE

Min(a, b) == IF a < b THEN a ELSE b

\* lines 254-392: one iteration of the while loop
DeinflectIterationMap(st) ==
    IF IsIchidanMasuStem(At(st.result, st.i))
    THEN [st EXCEPT !.i = @ + 1]
    ELSE [ApplyByEnding(StemForwardMap(st),
                        Min(7, Len(At(st.result, st.i).word)))
             EXCEPT !.i = @ + 1]

(***************************************************************************)
(* sqlite_dict_cy.pyx.  The database is the set of entry ids it holds; the *)
(* rows of an entry are taken from Entries.  None is the empty sequence.   *)
(***************************************************************************)
KanjiRow(kanji_text, priority, info) ==
    [text |-> kanji_text, priority |-> priority, info |-> info]

KanaRow(reading_text, no_kanji, priority, info) ==
    [text |-> reading_text, no_kanji |-> no_kanji, priority |-> priority,
     info |-> info]

\* a sense built by _build_senses: glosses are kept as their lang
Sense(pos_tags, glosses, misc) ==
    [pos_tags |-> pos_tags, glosses |-> glosses, misc |-> misc]

EntryRow(kanji, kana, senses) ==
    [kanji |-> kanji, kana |-> kana, senses |-> senses]

\* rows of the tables entries, kanji, readings and senses; entry_id is the
\* position in the sequence
Entries ==
    << \* に (particle)
       EntryRow(<<>>,
                << KanaRow(<<Ch.ni>>, FALSE, <<Tag("ichi1")>>, <<>>) >>,
                << Sense(<<"prt">>, <<"eng">>, <<>>) >>),
       \* 鮸 にべ (fish), usually written in kana
       EntryRow(<< KanjiRow(<<Ch.nibe>>, <<>>, <<>>) >>,
                << KanaRow(<<Ch.ni, Ch.be>>, FALSE, <<>>, <<>>) >>,
                << Sense(<<"n">>, <<"eng">>, <<"uk">>) >>),
       \* 荷 に (load)
       EntryRow(<< KanjiRow(<<Ch.nimotsu>>, <<Tag("ichi1")>>, <<>>) >>,
                << KanaRow(<<Ch.ni>>, FALSE, <<Tag("ichi1")>>, <<>>) >>,
                << Sense(<<"n">>, <<"eng">>, <<>>) >>),
       \* 似る にる (to resemble)
       EntryRow(<< KanjiRow(<<Ch.niru, Ch.ru>>, <<>>, <<>>) >>,
                << KanaRow(<<Ch.ni, Ch.ru>>, FALSE, <<>>, <<>>) >>,
                << Sense(<<"v1", "vi">>, <<"eng">>, <<>>) >>),
       \* が (particle)
       EntryRow(<<>>,
                << KanaRow(<<Ch.ga>>, FALSE, <<Tag("spec1")>>, <<>>) >>,
                << Sense(<<"prt">>, <<"eng">>, <<>>) >>),
       \* 𩸽 ほっけ (fish), a headword outside the BMP
       EntryRow(<< KanjiRow(<<Ch.hokke>>, <<>>, <<>>) >>,
                << KanaRow(<<Ch.ho, Ch.tsu_s, Ch.ke>>, FALSE, <<>>, <<>>) >>,
                << Sense(<<"n">>, <<"eng">>, <<"uk">>) >>),
       \* 二 弐 に (two)
       EntryRow(<< KanjiRow(<<Ch.two>>, <<Tag("ichi1"), Tag("news1")>>, <<>>),
                   KanjiRow(<<Ch.two_old>>, <<>>, <<>>) >>,
                << KanaRow(<<Ch.ni>>, FALSE, <<Tag("ichi1"), Tag("news1")>>, <<>>) >>,
                << Sense(<<"num">>, <<"eng">>, <<>>) >>),
       \* に (interjection), kana only, no priority
       EntryRow(<<>>,
                << KanaRow(<<Ch.ni>>, FALSE, <<>>, <<>>) >>,
                << Sense(<<"int">>, <<"eng">>, <<>>) >>),
       \* ああ (interjection)
       EntryRow(<<>>,
                << KanaRow(<<Ch.a, Ch.a>>, FALSE, <<Tag("spec1")>>, <<>>) >>,
                << Sense(<<"int">>, <<"eng">>, <<>>) >>),
       \* あーあ (interjection)
       EntryRow(<<>>,
                << KanaRow(<<Ch.a, Ch.choon, Ch.a>>, FALSE, <<>>, <<>>) >>,
                << Sense(<<"int">>, <<"eng">>, <<>>) >>) >>

\* s[:n]
Take(s, n) == Slice(s, 0, n)

\* the ids of a set in ascending order
RECURSIVE Ascending(_)
Ascending(ids) ==
    IF ids = {} THEN <<>>
    ELSE LET least == CHOOSE x \in ids : \A y \in ids : x <= y
         IN  <<least>> \o Ascending(ids \ {least})

\* lines 140-151: the entries with a reading or a kanji form equal to the
\* input or to its hiragana folding, at most max_results of them.  The query
\* has no ORDER BY; the rows are taken in entry_id order.
EntryRows(dictionary, input_text, max_results) ==
    LET normalized_input == kana_to_hiragana(input_text)
        wanted == {input_text, normalized_input}
        hit(id) ==
            \/ \E k \in 1..Len(Entries[id].kana) : Entries[id].kana[k].text \in wanted
            \/ \E k \in 1..Len(Entries[id].kanji) : Entries[id].kanji[k].text \in wanted
    IN  Take(Ascending({id \in dictionary : hit(id)}), max_results)

\* lines 165-250: the WordEntry built for one row
BuildEntry(entry_id, normalized_matching) ==
    LET row == Entries[entry_id]
        kanji_matches(k) == kana_to_hiragana(row.kanji[k].text) = normalized_matching
        kana_matches(k) == kana_to_hiragana(row.kana[k].text) = normalized_matching
        kanji_match_found == \E k \in 1..Len(row.kanji) : kanji_matches(k)
        kana_match_found ==
            /\ ~kanji_match_found
            /\ \E k \in 1..Len(row.kana) : kana_matches(k)
    IN  [entry_id |-> entry_id,
         kanji_readings |->
            [k \in 1..Len(row.kanji) |->
                [text |-> row.kanji[k].text,
                 priority |-> row.kanji[k].priority,
                 info |-> row.kanji[k].info,
                 match_range |-> IF kanji_matches(k)
                                 THEN <<0, Len(row.kanji[k].text)>> ELSE <<>>,
                 match |-> (kanji_match_found /\ kanji_matches(k))
                               \/ ~kanji_match_found]],
         kana_readings |->
            [k \in 1..Len(row.kana) |->
                [text |-> row.kana[k].text,
                 no_kanji |-> row.kana[k].no_kanji,
                 priority |-> row.kana[k].priority,
                 info |-> row.kana[k].info,
                 match_range |-> IF kana_matches(k)
                                 THEN <<0, Len(row.kana[k].text)>> ELSE <<>>,
                 match |-> (kana_match_found /\ kana_matches(k))
                               \/ ~kana_match_found]],
         senses |-> row.senses]

\* get_words of a dictionary opened without a cache (cache_size = 0)
get_words(dictionary, input_text, max_results, matching_text) ==
    LET normalized_matching == kana_to_hiragana(matching_text)
        entry_rows == EntryRows(dictionary, input_text, max_results)
    IN  [k \in 1..Len(entry_rows) |-> BuildEntry(entry_rows[k], normalized_matching)]


(***************************************************************************)
(* The second FastSQLiteDictionary (batched queries): the readings table   *)
(* is queried first and the kanji table only when no reading matched; the  *)
(* match flags are set while the readings are walked.                      *)
(***************************************************************************)
EntryRowsBatched(dictionary, input_text, max_results) ==
    LET normalized_input == kana_to_hiragana(input_text)
        wanted == {input_text, normalized_input}
        by_reading == {id \in dictionary :
            \E k \in 1..Len(Entries[id].kana) : Entries[id].kana[k].text \in wanted}
        by_kanji == {id \in dictionary :
            \E k \in 1..Len(Entries[id].kanji) : Entries[id].kanji[k].text \in wanted}
        entry_rows == Take(Ascending(by_reading), max_results)
    IN  IF entry_rows # <<>> THEN entry_rows
        ELSE Take(Ascending(by_kanji), max_results)

\* the value of a match_found flag after the first k rows have been walked
FoundUpTo(rows, k, normalized_matching) ==
    \E j \in 1..k : kana_to_hiragana(rows[j].text) = normalized_matching

BuildEntryBatched(entry_id, normalized_matching) ==
    LET row == Entries[entry_id]
        kanji_matches(k) == kana_to_hiragana(row.kanji[k].text) = normalized_matching
        kana_matches(k) == kana_to_hiragana(row.kana[k].text) = normalized_matching
        kanji_match_found == FoundUpTo(row.kanji, Len(row.kanji), normalized_matching)
    IN  [entry_id |-> entry_id,
         kanji_readings |->
            [k \in 1..Len(row.kanji) |->
                [text |-> row.kanji[k].text,
                 priority |-> row.kanji[k].priority,
                 info |-> row.kanji[k].info,
                 match_range |-> IF kanji_matches(k)
                                 THEN <<0, Len(row.kanji[k].text)>> ELSE <<>>,
                 match |-> (FoundUpTo(row.kanji, k, normalized_matching)
                                /\ kanji_matches(k))
                               \/ ~FoundUpTo(row.kanji, k, normalized_matching)]],
         kana_readings |->
            [k \in 1..Len(row.kana) |->
                [text |-> row.kana[k].text,
                 no_kanji |-> row.kana[k].no_kanji,
                 priority |-> row.kana[k].priority,
                 info |-> row.kana[k].info,
                 match_range |-> IF kana_matches(k)
                                 THEN <<0, Len(row.kana[k].text)>> ELSE <<>>,
                 match |-> IF kanji_match_found THEN FALSE
                           ELSE (FoundUpTo(row.kana, k, normalized_matching)
                                     /\ kana_matches(k))
                                    \/ ~FoundUpTo(row.kana, k, normalized_matching)]],
         senses |-> row.senses]

get_words_batched(dictionary, input_text, max_results, matching_text) ==
    LET normalized_matching == kana_to_hiragana(matching_text)
        entry_rows == EntryRowsBatched(dictionary, input_text, max_results)
    IN  [k \in 1..Len(entry_rows) |-> BuildEntryBatched(entry_rows[k], normalized_matching)]

\* get_words of the class in use: "per_entry" is sqlite_dict_cy.pyx,
\* "batched" the second FastSQLiteDictionary
GetWordsOf(variant, dictionary, input_text, max_results, matching_text) ==
    IF variant = "batched"
    THEN get_words_batched(dictionary, input_text, max_results, matching_text)
    ELSE get_words(dictionary, input_text, max_results, matching_text)

(***************************************************************************)
(* type_matching_cy.pyx.  The tests on a POS tag are given by the sets of  *)
(* the tags of the model that pass them.                                   *)
(***************************************************************************)
\* pos.startswith('v1') or 'Ichidan verb' in pos or pos == 'v1'
IsIchidanPos(pos) == pos \in {"v1", "v1-s"}
\* pos.startswith('v5') or pos.startswith('v4') or 'Godan verb' in pos
IsGodanPos(pos) == pos \in {"v5k", "v5r", "v4k"}
\* pos.startswith('adj-i') or 'adjective' in pos.lower()
IsIAdjPos(pos) == pos \in {"adj-i"}
\* pos == 'vk' or 'kuru verb' in pos.lower()
IsKuruPos(pos) == pos = "vk"
\* pos == 'vs-i' or pos == 'vs-s' or 'suru verb' in pos.lower()
IsSuruPos(pos) == pos \in {"vs-i", "vs-s"}
\* pos == 'vs-s' or pos == 'vz' or 'suru verb' in pos.lower()
IsSpecialSuruPos(pos) == pos \in {"vs-s", "vz"}
\* pos == 'vs' or ('noun or participle' in pos.lower() and 'suru' in pos.lower())
IsNounVSPos(pos) == pos = "vs"

entry_matches_type(entry, word_type) ==
    LET all_pos_tags == UNION {SeqSet(entry.senses[k].pos_tags) :
                                  k \in 1..Len(entry.senses)}
    IN  /\ all_pos_tags # {}
        /\ \/ word_type \cap WordType.IchidanVerb # {}
                /\ \E pos \in all_pos_tags : IsIchidanPos(pos)
           \/ word_type \cap WordType.GodanVerb # {}
                /\ \E pos \in all_pos_tags : IsGodanPos(pos)
           \/ word_type \cap WordType.IAdj # {}
                /\ \E pos \in all_pos_tags : IsIAdjPos(pos)
           \/ word_type \cap WordType.KuruVerb # {}
                /\ \E pos \in all_pos_tags : IsKuruPos(pos)
           \/ word_type \cap WordType.SuruVerb # {}
                /\ \E pos \in all_pos_tags : IsSuruPos(pos)
           \/ word_type \cap WordType.SpecialSuruVerb # {}
                /\ \E pos \in all_pos_tags : IsSpecialSuruPos(pos)
           \/ word_type \cap WordType.NounVS # {}
                /\ \E pos \in all_pos_tags : IsNounVSPos(pos)

(***************************************************************************)
(* word_search_cy.pyx.  A WordResult is [entry, match_len, reason_chains]  *)
(* with the empty sequence for reason_chains = None.                       *)
(***************************************************************************)
is_only_digits(text) ==
    /\ text # <<>>
    /\ \A k \in 1..Len(text) :
          LET code == text[k]
          IN  \/ 48 <= code /\ code <= 57
              \/ 65296 <= code /\ code <= 65305
              \/ code \in {44, 65292, 12289}
              \/ code \in {46, 65294, 12290}

WordResult(entry, match_len, reason_chains) ==
    [entry |-> entry, match_len |-> match_len, reason_chains |-> reason_chains]

\* lines 285-297: the entries kept for a candidate
RECURSIVE KeptEntries(_, _, _, _)
KeptEntries(word_entries, is_deinflection, word_type, existing_entries) ==
    IF word_entries = <<>> THEN <<>>
    ELSE LET entry == Head(word_entries)
             rest == KeptEntries(Tail(word_entries), is_deinflection, word_type,
                                 existing_entries)
         IN  IF /\ is_deinflection => entry_matches_type(entry, word_type)
                /\ entry.entry_id \notin existing_entries
             THEN <<entry>> \o rest
             ELSE rest

\* lines 300-305: the entries of a candidate wrapped as WordResults
WrapEntries(word_entries, input_length, reason_chains) ==
    [k \in 1..Len(word_entries) |->
        WordResult(word_entries[k], input_length, reason_chains)]

\* lines 278-305: the body of the loop over the candidates, from
\* candidate_index on
RECURSIVE CandidateResults(_, _, _, _, _, _, _)
CandidateResults(candidates, candidate_index, dictionary, existing_entries, max_results, input_length, matching_text) ==
    IF candidate_index >= Len(candidates) THEN <<>>
    ELSE WrapEntries(
             KeptEntries(get_words(dictionary,
                                   At(candidates, candidate_index).word,
                                   max_results * 2, matching_text),
                         candidate_index # 0,
                         At(candidates, candidate_index).type,
                         existing_entries),
             input_length,
             At(candidates, candidate_index).reason_chains)
         \o CandidateResults(candidates, candidate_index + 1, dictionary,
                             existing_entries, max_results, input_length,
                             matching_text)

lookup_candidates(input_text, dictionary, existing_entries, max_results, input_length, original_search_text) ==
    Take(sort_word_results(
             CandidateResults(deinflect(input_text), 0, dictionary,
                              existing_entries, max_results, input_length,
                              original_search_text)),
         max_results)

\* line 184: the original length of the current input; past the end of the
\* map the read of input_lengths[-1] is unchecked
CurrentInputLength(current_input, input_lengths, garbage) ==
    IF Len(current_input) < Len(input_lengths)
    THEN At(input_lengths, Len(current_input))
    ELSE LastUnchecked(input_lengths, garbage)

\* lines 174-182: the variations of the current input
Variations(current_input, include_variants) ==
    <<current_input>> \o
    (IF include_variants
     THEN expand_choon(current_input) \o
          (IF kyuujitai_to_shinjitai(current_input) # current_input
           THEN <<kyuujitai_to_shinjitai(current_input)>> ELSE <<>>)
     ELSE <<>>)

\* lines 200-216: a variant with results; matched records for each successful
\* lookup the length of the input looked up and the match_len given to it
TakeVariant_KeepVariants(s, variant, word_results, current_input_length) ==
    [s EXCEPT
        !.have = @ \cup {word_results[j].entry.entry_id :
                            j \in 1..Len(word_results)},
        !.longest_match = IF current_input_length > @
                          THEN current_input_length ELSE @,
        !.results = @ \o word_results,
        !.matched = Append(@, [length |-> Len(s.current_input),
                               match_len |-> current_input_length]),
        !.current_input = variant]

TakeVariant(s, variant, word_results, current_input_length) ==
    [s EXCEPT
        !.have = @ \cup {word_results[j].entry.entry_id :
                            j \in 1..Len(word_results)},
        !.longest_match = IF current_input_length > @
                          THEN current_input_length ELSE @,
        !.results = @ \o word_results,
        !.matched = Append(@, [length |-> Len(s.current_input),
                               match_len |-> current_input_length]),
        !.current_input = variant,
        !.include_variants = FALSE]

\* the call of lookup_candidates on a variant: the text looked up, the
\* current input it is a variation of, include_variants at the call and the
\* number of results collected before it
Lookup_(s, variant) ==
    [text |-> variant, current_input |-> s.current_input,
     include_variants |-> s.include_variants, found |-> Len(s.results)]

\* lines 186-216: the loop over the variations, from variation k on, and its
\* body for the results of variation k
RECURSIVE TryVariations(_, _, _, _, _, _)
RECURSIVE TryVariant(_, _, _, _, _, _, _)
TryVariations(s, variations, k, dictionary, max_results, current_input_length) ==
    IF k > Len(variations) THEN s
    ELSE TryVariant([s EXCEPT !.lookups = Append(@, Lookup_(s, variations[k]))],
                    variations, k, dictionary, max_results,
                    current_input_length,
                    lookup_candidates(variations[k], dictionary, s.have,
                                      max_results, current_input_length,
                                      s.current_input))

TryVariant(s, variations, k, dictionary, max_results, current_input_length, word_results) ==
    IF word_results = <<>>
    THEN TryVariations(s, variations, k + 1, dictionary, max_results,
                       current_input_length)
    ELSE TakeVariant(s, variations[k], word_results, current_input_length)

\* the input shortened by one code unit whatever its end
Shorten_ByOne(current_input) ==
    Slice(current_input, 0, Len(current_input) - 1)

\* lines 223-225
Shorten(current_input) ==
    Slice(current_input, 0,
          Len(current_input) - (IF ends_in_yoon(current_input) THEN 2 ELSE 1))

\* lines 169-225: the while loop, and the rest of an iteration after the loop
\* over the variations
RECURSIVE SearchLoop(_, _, _, _, _)
RECURSIVE AfterVariations(_, _, _, _, _)
SearchLoop(s, dictionary, max_results, input_lengths, garbage) ==
    IF s.current_input = <<>> THEN s
    ELSE IF is_only_digits(s.current_input) THEN s
    ELSE AfterVariations(
             TryVariations(s, Variations(s.current_input, s.include_variants), 1,
                           dictionary, max_results,
                           CurrentInputLength(s.current_input, input_lengths,
                                              garbage)),
             dictionary, max_results, input_lengths, garbage)

AfterVariations(t, dictionary, max_results, input_lengths, garbage) ==
    IF Len(t.results) >= max_results * 5 THEN t
    ELSE SearchLoop([t EXCEPT !.current_input = Shorten(@)],
                    dictionary, max_results, input_lengths, garbage)

\* input_lengths=None
None == <<-1>>

\* lines 153-166: the state before the loop
SearchStart(normalized) ==
    [current_input |-> normalized, include_variants |-> TRUE, have |-> {},
     results |-> <<>>, longest_match |-> 0, matched |-> <<>>,
     lookups |-> <<>>]

\* lines 227-240.  The result is [found, data, match_len, more]; found is
\* false for None.  sorted is the list before it is cut to max_results.
SearchResult(s, sorted, max_results, normalized) ==
    IF s.results = <<>>
    THEN [found |-> FALSE, data |-> <<>>, match_len |-> 0, more |-> FALSE,
          sorted |-> <<>>, matched |-> <<>>, normalized |-> normalized,
          lookups |-> s.lookups]
    ELSE [found |-> TRUE, data |-> Take(sorted, max_results),
          match_len |-> s.longest_match,
          more |-> Len(Take(sorted, max_results)) >= max_results,
          sorted |-> sorted, matched |-> s.matched, normalized |-> normalized,
          lookups |-> s.lookups]

\* lines 166-240, for the normalised text and its map
SearchSorted(s, max_results, normalized) ==
    SearchResult(s, sort_word_results(s.results), max_results, normalized)

SearchNormalized(n, dictionary, max_results, garbage) ==
    SearchSorted(SearchLoop(SearchStart(n.normalized), dictionary, max_results,
                            n.input_lengths, garbage),
                 max_results, n.normalized)

word_search(input_text, dictionary, max_results, input_lengths, garbage) ==
    IF input_lengths = None
    THEN SearchNormalized(normalize_input(input_text, TRUE, TRUE, garbage),
                          dictionary, max_results, garbage)
    ELSE SearchNormalized([normalized |-> input_text,
                           input_lengths |-> input_lengths],
                          dictionary, max_results, garbage)

(***************************************************************************)
(* tokenizer.py, the driver of section 4.9.  p is an index into the        *)
(* normalised text; a Token is [text, start, end, entry_id, reasons] with  *)
(* entry_id 0 for no dictionary entry.  A token also records whether       *)
(* word_search returned a result and the match_len of that result.         *)
(***************************************************************************)
\* offset_map_shifted_by_p: the map of norm[p:], relative to offset_map[p]
ShiftedMap(offset_map, p) ==
    [k \in 1..(Len(offset_map) - p) |-> offset_map[p + k] - At(offset_map, p)]

\* the normalised equivalent of match_len: the first position of the shifted
\* map that lies match_len original units on, the rest of the text if none
NormalizedAdvance(shifted, match_len, remaining) ==
    LET reached == {k \in 0..remaining :
                       k < Len(shifted) /\ At(shifted, k) >= match_len}
    IN  IF reached = {} THEN remaining
        ELSE CHOOSE k \in reached : \A j \in reached : k <= j

Token(text, start, end, entry_id, reasons, found, search_match_len) ==
    [text |-> text, start |-> start, end |-> end, entry_id |-> entry_id,
     reasons |-> reasons, found |-> found, search_match_len |-> search_match_len]

\* the token emitted for the result of word_search, and the new position
EmitToken(t, result, orig_start) ==
    IF result.found
    THEN [t EXCEPT
            !.tokens = Append(@,
                Token(Slice(t.text, orig_start,
                            orig_start + result.data[1].match_len),
                      orig_start, orig_start + result.data[1].match_len,
                      result.data[1].entry.entry_id,
                      result.data[1].reason_chains, TRUE, result.match_len)),
            !.p = @ + NormalizedAdvance(ShiftedMap(t.offset_map, t.p),
                                        result.data[1].match_len,
                                        Len(t.norm) - t.p)]
    ELSE [t EXCEPT
            !.tokens = Append(@,
                Token(Slice(t.text, orig_start, orig_start + 1), orig_start,
                      orig_start + 1, 0, <<>>, FALSE, 0)),
            !.p = @ + 1]

\* one iteration of the loop of step 3
TokenizeIteration(t) ==
    EmitToken(t,
              word_search(Slice(t.norm, t.p, Len(t.norm)), t.dictionary,
                          t.max_results, ShiftedMap(t.offset_map, t.p),
                          t.garbage),
              At(t.offset_map, t.p))

(***************************************************************************)
(* The normaliser run on its own: one call of normalize_input.             *)
(***************************************************************************)
NormAlphabet == {Ch.zwnj, Ch.digit1, Ch.ka, Ch.ga, Ch.dakuten, Ch.qa, Ch.ni,
                 Ch.shikaru}

RECURSIVE TextsUpTo(_, _)
TextsUpTo(alphabet, n) ==
    IF n = 0 THEN {<<>>}
    ELSE LET shorter == TextsUpTo(alphabet, n - 1)
         IN  shorter \cup {Append(t, c) : t \in shorter, c \in alphabet}

Off == [pc |-> "off"]

NormInit ==
    /\ nz \in [pc : {"call"},
               input_text : TextsUpTo(NormAlphabet, MaxNormLen),
               make_numbers_full_width : BOOLEAN,
               strip_zwnj : BOOLEAN,
               garbage : 0..MaxGarbage,
               normalized : {<<>>},
               input_lengths : {<<>>}]
    /\ ws = Off
    /\ tk = Off
    /\ df = Off
    /\ dc = Off
    /\ fn = Off

NormalizeInput ==
    /\ nz.pc = "call"
    /\ LET r == normalize_input(nz.input_text, nz.make_numbers_full_width,
                                nz.strip_zwnj, nz.garbage)
       IN  nz' = [nz EXCEPT !.pc = "done",
                            !.normalized = r.normalized,
                            !.input_lengths = r.input_lengths]
    /\ UNCHANGED <<ws, tk, df, dc, fn>>

NormNext == NormalizeInput

SpecNorm == NormInit /\ [][NormNext]_vars

\* C8: when normalize_input has returned, the offset map has one entry per
\* UTF-16 code unit of the normalized text plus one sentinel, for every input
\* and every combination of make_numbers_full_width and strip_zwnj.
C8_OffsetMapLength ==
    nz.pc = "done" => Len(nz.input_lengths) = Utf16Len(nz.normalized) + 1

\* C9: when normalize_input has returned, the last entry of the offset map
\* is the length of the input after digit width folding and before NFC.
C9_LastEntryIsOriginalLength ==
    nz.pc = "done" =>
        nz.input_lengths[Len(nz.input_lengths)] =
            Utf16Len(IF nz.make_numbers_full_width
                         THEN half_to_full_width_num(nz.input_text)
                         ELSE nz.input_text)

(***************************************************************************)
(* deinflect run on its own, one iteration of its while loop per step.     *)
(***************************************************************************)
DeinflectPieces ==
    { <<Ch.ta, Ch.be>>, <<Ch.ka>>, <<Ch.ki>>, <<Ch.i>>, <<Ch.sa, Ch.se>>,
      <<Ch.ra, Ch.re>>, <<Ch.ru>>, <<Ch.ma, Ch.shi, Ch.ta>>, <<Ch.ma, Ch.su>>,
      <<Ch.ta>>, <<Ch.TA>>, <<Ch.re>>, <<Ch.se>>, <<Ch.na, Ch.i>>,
      <<Ch.sa, Ch.se, Ch.ra, Ch.re>>, <<Ch.na, Ch.sa, Ch.i>>, <<Ch.te>> }

RECURSIVE WordsOf(_, _)
WordsOf(pieces, n) ==
    IF n = 0 THEN {<<>>}
    ELSE LET shorter == WordsOf(pieces, n - 1)
         IN  shorter \cup {w \o q : w \in shorter, q \in pieces}

DeinflectInit ==
    /\ \E word \in WordsOf(DeinflectPieces, MaxMorphemes) \ {<<>>} :
           df = [pc |-> "loop", word |-> word, st |-> DeinflectStart(word),
                 returned |-> <<>>]
    /\ nz = Off
    /\ ws = Off
    /\ tk = Off
    /\ dc = Off
    /\ fn = Off

DeinflectStep ==
    /\ df.pc = "loop"
    /\ df.st.i < Len(df.st.result)
    /\ df' = [df EXCEPT !.st = DeinflectIteration(df.st)]
    /\ UNCHANGED <<nz, ws, tk, dc, fn>>

DeinflectReturn ==
    /\ df.pc = "loop"
    /\ df.st.i >= Len(df.st.result)
    /\ df' = [df EXCEPT !.pc = "done",
                        !.returned = FilterCandidates(df.st.result)]
    /\ UNCHANGED <<nz, ws, tk, dc, fn>>

DeinflectNext == DeinflectStep \/ DeinflectReturn

SpecDeinflect == DeinflectInit /\ [][DeinflectNext]_vars

\* C10: throughout a run of deinflect the candidate at index 0 is the input
\* word with no reason chains (no stem forwarding, rule or merge adds a chain
\* to it), and it is the first element of the returned list.
C10_IdentitySeedFirst ==
    /\ df.pc \in {"loop", "done"} =>
           /\ At(df.st.result, 0).word = df.word
           /\ At(df.st.result, 0).reason_chains = <<>>
    /\ df.pc = "done" =>
           /\ df.returned # <<>>
           /\ df.returned[1].word = df.word
           /\ df.returned[1].reason_chains = <<>>

\* deinflect has returned the seed together with candidates reached by stem
\* forwarding and by rules
C10_Witness ==
    /\ df.pc = "done"
    /\ Len(df.returned) >= 3
    /\ \E k \in 2..Len(df.returned) : Len(df.returned[k].reason_chains[1]) >= 2

\* no reason occurs twice in the chain
NoRepeat(chain) ==
    \A a, b \in 1..Len(chain) : chain[a] = chain[b] => a = b

\* C11: for every candidate returned by deinflect, no reason chain holds the
\* same reason twice, whichever of the rewrite to CausativePassive, stem
\* forwarding or merging built the chain.
C11_NoRepeatedReason ==
    df.pc = "done" =>
        \A k \in 1..Len(df.returned) :
            \A c \in 1..Len(df.returned[k].reason_chains) :
                NoRepeat(df.returned[k].reason_chains[c])

SearchPieces ==
    { <<Ch.ni>>, <<Ch.BE>>, <<Ch.ta>>, <<Ch.te>>, <<Ch.ka, Ch.dakuten>>,
      <<Ch.hokke>>, <<Ch.zwnj>> }

\* the subsets of the first six entries, and three homophones of which the
\* kana-only one has the highest entry_id
Dictionaries == SUBSET (1..6) \cup {{3, 7, 8}}

\* max_results: a single result, and the tokenizer's default
MaxResultsChoices == {1, 12}

NoResult ==
    [found |-> FALSE, data |-> <<>>, match_len |-> 0, more |-> FALSE,
     sorted |-> <<>>, matched |-> <<>>, normalized |-> <<>>, lookups |-> <<>>]

SearchInit ==
    /\ ws \in [pc : {"call"},
               input_text : WordsOf(SearchPieces, MaxSearchPieces) \ {<<>>},
               dictionary : Dictionaries,
               max_results : MaxResultsChoices,
               garbage : 0..MaxGarbage,
               result : {NoResult}]
    /\ nz = Off
    /\ tk = Off
    /\ df = Off
    /\ dc = Off
    /\ fn = Off

WordSearch ==
    /\ ws.pc = "call"
    /\ ws' = [ws EXCEPT !.pc = "done",
                        !.result = word_search(ws.input_text, ws.dictionary,
                                               ws.max_results, None, ws.garbage)]
    /\ UNCHANGED <<nz, tk, df, dc, fn>>

SearchNext == WordSearch

SpecSearch == SearchInit /\ [][SearchNext]_vars

\* C5: every match_len word_search produces is the number of UTF-16 code
\* units of a prefix of the original input whose normalisation is the matched
\* prefix of the normalised text; the returned match_len is that of the first
\* (longest) match, and every WordResult carries the match_len of its match.
C5_MatchLenInOriginalUnits ==
    ws.pc = "done" /\ ws.result.found =>
        LET text == ws.input_text
            normalized == ws.result.normalized
            Covered(n) ==
                {Utf16Len(Take(text, m)) : m \in
                    {m \in 0..Len(text) :
                        normalize_input(Take(text, m), TRUE, TRUE, 0).normalized
                            = Take(normalized, n)}}
            matched == ws.result.matched
        IN  /\ \A k \in 1..Len(matched) :
                   matched[k].match_len \in Covered(matched[k].length)
            /\ ws.result.match_len \in Covered(matched[1].length)
            /\ \A k \in 1..Len(ws.result.data) :
                   \E j \in 1..Len(matched) :
                       /\ ws.result.data[k].match_len = matched[j].match_len
                       /\ ws.result.data[k].match_len \in Covered(matched[j].length)

\* C6: in the data word_search returns (the list sort_word_results produced),
\* a result with a larger match_len never comes after one with a smaller
\* match_len.
C6_LongerMatchFirst ==
    ws.pc = "done" =>
        \A i, j \in 1..Len(ws.result.data) :
            i < j => ws.result.data[i].match_len >= ws.result.data[j].match_len

HasMatchRange(entry) ==
    \/ \E k \in 1..Len(entry.kanji_readings) : entry.kanji_readings[k].match_range # <<>>
    \/ \E k \in 1..Len(entry.kana_readings) : entry.kana_readings[k].match_range # <<>>

\* C13: every entry word_search returns was returned by get_words because a
\* reading equals the looked-up candidate word, and that reading carries a
\* match_range: each returned entry has a reading with match_range set.
C13_MatchedReadingHasRange ==
    (ws.pc = "done" /\ ws.result.found) =>
        \A k \in 1..Len(ws.result.data) : HasMatchRange(ws.result.data[k].entry)

(***************************************************************************)
(* tokenize run on its own: normalisation, then one step per iteration of  *)
(* the driver loop.  An iteration is taken only while the token list is no *)
(* longer than the normalised text, which no advancing run exceeds.        *)
(***************************************************************************)
TokInit ==
    /\ tk \in [pc : {"call"},
               text : WordsOf(SearchPieces, MaxSearchPieces) \ {<<>>},
               dictionary : Dictionaries,
               max_results : MaxResultsChoices,
               garbage : 0..MaxGarbage,
               norm : {<<>>},
               offset_map : {<<>>},
               p : {0},
               tokens : {<<>>}]
    /\ nz = Off
    /\ ws = Off
    /\ df = Off
    /\ dc = Off
    /\ fn = Off

TokenizeNormalize ==
    /\ tk.pc = "call"
    /\ LET r == normalize_input(tk.text, TRUE, TRUE, tk.garbage)
       IN  tk' = [tk EXCEPT !.pc = "loop",
                            !.norm = r.normalized,
                            !.offset_map = r.input_lengths]
    /\ UNCHANGED <<nz, ws, df, dc, fn>>

TokenizeStep ==
    /\ tk.pc = "loop"
    /\ tk.p < Len(tk.norm)
    /\ Len(tk.tokens) <= Len(tk.norm)
    /\ tk' = TokenizeIteration(tk)
    /\ UNCHANGED <<nz, ws, df, dc, fn>>

TokenizeReturn ==
    /\ tk.pc = "loop"
    /\ tk.p >= Len(tk.norm)
    /\ tk' = [tk EXCEPT !.pc = "done"]
    /\ UNCHANGED <<nz, ws, df, dc, fn>>

TokNext == TokenizeNormalize \/ TokenizeStep \/ TokenizeReturn

SpecTok == TokInit /\ [][TokNext]_vars

\* C1: the tokens tokenize returns tile the original input: the first starts
\* at 0, each starts where the previous one ends, and the last ends at the
\* UTF-16 length of the original text.
C1_TokensTileOriginal ==
    tk.pc = "done" =>
        LET n == Len(tk.tokens)
        IN  /\ n = 0 => Utf16Len(tk.text) = 0
            /\ n > 0 => /\ tk.tokens[1].start = 0
                        /\ tk.tokens[n].end = Utf16Len(tk.text)
            /\ \A k \in 1..(n - 1) : tk.tokens[k + 1].start = tk.tokens[k].end

\* C2: the start and end of every token are UTF-16 code-unit offsets into the
\* original input, and the code units of the original between them are the
\* token's text.
C2_OffsetsSliceOriginal ==
    tk.pc \in {"loop", "done"} =>
        \A k \in 1..Len(tk.tokens) :
            LET t == tk.tokens[k]
            IN  /\ 0 <= t.start
                /\ t.start <= t.end
                /\ t.end <= Utf16Len(tk.text)
                /\ Slice(Utf16Encode(tk.text), t.start, t.end) = Utf16Encode(t.text)

\* C3: wherever word_search returned a result, the token built from the first
\* element of its data is as long as the longest match found, the match_len
\* of the result.
C3_GreedyLongestMatch ==
    tk.pc \in {"loop", "done"} =>
        \A k \in 1..Len(tk.tokens) :
            tk.tokens[k].found =>
                tk.tokens[k].end - tk.tokens[k].start = tk.tokens[k].search_match_len

\* C4: every iteration of the driver loop advances p by at least one, with
\* and without a result of word_search.
C4_EveryIterationAdvances ==
    [][tk.pc = "loop" /\ tk'.pc = "loop" => tk'.p >= tk.p + 1]_vars



(***************************************************************************)
(* FastSQLiteDictionary with its lookup cache.  An instance is [variant,   *)
(* cache_on, cache, conn]: cache_on is "_cache is not None", conn is 0 for *)
(* None and otherwise the thread that opened the connection                *)
(* (sqlite3.connect is called without check_same_thread, so sqlite3        *)
(* refuses the connection to every other thread).  The database holds all  *)
(* of Entries and never changes.                                           *)
(*                                                                         *)
(* The dict _cache keeps insertion order.  It is held run-length encoded:  *)
(* a sequence of segments [input_text, matching_text, lo, hi], oldest      *)
(* first, a segment standing for the keys of the calls                     *)
(* (input_text, n, matching_text), n = lo..hi, stored in that order.  The  *)
(* value stored under a key is the list such a call computed.              *)
(***************************************************************************)
Database == 1..Len(Entries)

CacheLimit == 10000

EvictCount == 2000

\* str(n) for n >= 0
RECURSIVE Digits(_)
Digits(n) ==
    IF n < 10 THEN <<Ch.digit0 + n>>
    ELSE Digits(n \div 10) \o <<Ch.digit0 + (n % 10)>>

\* str(matching_text) inside the f-string
Formatted(matching_text) ==
    IF matching_text = None THEN <<Ch.N, Ch.o, Ch.n, Ch.e>> ELSE matching_text

\* f"{input_text}:{max_results}:{matching_text}"
CacheKey(input_text, max_results, matching_text) ==
    input_text \o <<Ch.colon>> \o Digits(max_results) \o <<Ch.colon>>
        \o Formatted(matching_text)

\* the number a string of decimal digits stands for, -1 for any other string
RECURSIVE DecimalValue(_)
DecimalValue(s) ==
    IF s = <<>> THEN -1
    ELSE LET d == s[Len(s)] - Ch.digit0
         IN  IF d < 0 \/ d > 9 THEN -1
             ELSE IF Len(s) = 1 THEN d
             ELSE LET rest == DecimalValue(SubSeq(s, 1, Len(s) - 1))
                  IN  IF rest < 0 THEN -1 ELSE 10 * rest + d

\* the n in lo..hi with CacheKey(input_text, n, matching_text) = key, or -1
KeyNumber(segment, key) ==
    LET pre == segment.input_text \o <<Ch.colon>>
        suf == <<Ch.colon>> \o Formatted(segment.matching_text)
        m == Len(key) - Len(pre) - Len(suf)
    IN  IF m < 1 THEN -1
        ELSE IF SubSeq(key, 1, Len(pre)) # pre THEN -1
        ELSE IF SubSeq(key, Len(key) - Len(suf) + 1, Len(key)) # suf THEN -1
        ELSE LET mid == SubSeq(key, Len(pre) + 1, Len(pre) + m)
                 n == DecimalValue(mid)
             IN  IF n >= segment.lo /\ n <= segment.hi /\ Digits(n) = mid
                 THEN n ELSE -1

\* the position of the segment that holds the key, 0 when
\* "cache_key in self._cache" is false
CacheFind(cache, key) ==
    IF \E k \in 1..Len(cache) : KeyNumber(cache[k], key) >= 0
    THEN CHOOSE k \in 1..Len(cache) : KeyNumber(cache[k], key) >= 0
    ELSE 0

\* len(self._cache)
RECURSIVE CacheLen(_)
CacheLen(cache) ==
    IF cache = <<>> THEN 0
    ELSE (Head(cache).hi - Head(cache).lo + 1) + CacheLen(Tail(cache))

\* text_for_match_range
TextForMatchRange(input_text, matching_text) ==
    IF matching_text = None THEN input_text ELSE matching_text

\* the list computed from the database by a call
Computed(variant, input_text, max_results, matching_text) ==
    GetWordsOf(variant, Database, input_text, max_results,
               TextForMatchRange(input_text, matching_text))

\* self._cache[cache_key] for a key held by the segment at position k
CacheGet(variant, cache, k, key) ==
    Computed(variant, cache[k].input_text, KeyNumber(cache[k], key),
             cache[k].matching_text)

\* lines 257-259: the first count keys are deleted
RECURSIVE DropOldest(_, _)
DropOldest(cache, count) ==
    IF count = 0 \/ cache = <<>> THEN cache
    ELSE LET size == Head(cache).hi - Head(cache).lo + 1
         IN  IF size <= count THEN DropOldest(Tail(cache), count - size)
             ELSE <<[Head(cache) EXCEPT !.lo = @ + count]>> \o Tail(cache)

\* line 260, self._cache[cache_key] = entries: a new key goes to the end, a
\* key already held keeps its place and takes the new value
CachePut(cache, input_text, max_results, matching_text) ==
    LET key == CacheKey(input_text, max_results, matching_text)
        k == CacheFind(cache, key)
        one == [input_text |-> input_text, matching_text |-> matching_text,
                lo |-> max_results, hi |-> max_results]
    IN  IF k = 0
        THEN IF /\ cache # <<>>
                /\ cache[Len(cache)].input_text = input_text
                /\ cache[Len(cache)].matching_text = matching_text
                /\ cache[Len(cache)].hi + 1 = max_results
             THEN [cache EXCEPT ![Len(cache)].hi = max_results]
             ELSE Append(cache, one)
        ELSE LET n == KeyNumber(cache[k], key)
                 before == IF n > cache[k].lo
                           THEN <<[cache[k] EXCEPT !.hi = n - 1]>> ELSE <<>>
                 after == IF n < cache[k].hi
                          THEN <<[cache[k] EXCEPT !.lo = n + 1]>> ELSE <<>>
             IN  SubSeq(cache, 1, k - 1) \o before \o <<one>> \o after
                     \o SubSeq(cache, k + 1, Len(cache))

\* lines 252-260: the cache is trimmed and the result stored
CacheStore(cache, input_text, max_results, matching_text) ==
    CachePut(IF CacheLen(cache) > CacheLimit
             THEN DropOldest(cache, EvictCount) ELSE cache,
             input_text, max_results, matching_text)

\* __init__, called by thread
NewDictionary(variant, cache_size, thread) ==
    [variant |-> variant, cache_on |-> cache_size > 0, cache |-> <<>>,
     conn |-> thread]

\* close
close(self) == [self EXCEPT !.conn = 0, !.cache = <<>>]

\* lines 125-135: the connection is reopened if closed, the cache is looked
\* up, and a cursor is asked for.  The outcome is "hit" with the cached
\* list, "raise" when sqlite3 refuses the thread, or "query".
Connected(self, thread) ==
    IF self.conn = 0 THEN [self EXCEPT !.conn = thread] ELSE self

CacheCheck(connected, thread, key, k) ==
    IF k > 0
    THEN [self |-> connected, outcome |-> "hit",
          returned |-> CacheGet(connected.variant, connected.cache, k, key)]
    ELSE IF connected.conn # thread
    THEN [self |-> connected, outcome |-> "raise", returned |-> <<>>]
    ELSE [self |-> connected, outcome |-> "query", returned |-> <<>>]

CacheLookup(connected, thread, key) ==
    CacheCheck(connected, thread, key,
               IF connected.cache_on THEN CacheFind(connected.cache, key) ELSE 0)

GetWordsBegin(self, thread, input_text, max_results, matching_text) ==
    CacheLookup(Connected(self, thread), thread,
                CacheKey(input_text, max_results, matching_text))

\* lines 140-262: the queries, the entries built from the rows, the cache
\* store and the return
GetWordsFinish(self, input_text, max_results, matching_text, entries) ==
    IF entries = <<>> \/ ~self.cache_on
    THEN [self |-> self, outcome |-> "return", returned |-> entries]
    ELSE [self |-> [self EXCEPT !.cache = CacheStore(@, input_text, max_results, matching_text)],
          outcome |-> "return", returned |-> entries]

\* the rest of a call after its first part
GetWordsRest(begun, input_text, max_results, matching_text) ==
    IF begun.outcome # "query" THEN begun
    ELSE GetWordsFinish(begun.self, input_text, max_results, matching_text,
             Computed(begun.self.variant, input_text, max_results, matching_text))

\* a whole call of get_words made by thread with no other thread running
GetWordsCall(self, thread, input_text, max_results, matching_text) ==
    GetWordsRest(GetWordsBegin(self, thread, input_text, max_results, matching_text), input_text, max_results, matching_text)

(***************************************************************************)
(* get_words run on its own: one lookup on a dictionary opened without a   *)
(* cache, by either FastSQLiteDictionary.                                  *)
(***************************************************************************)
Variants == {"per_entry", "batched"}

LookupTexts ==
    { <<Ch.ni>>, <<Ch.two>>, <<Ch.two_old>>, <<Ch.nimotsu>>, <<Ch.ni, Ch.ru>>,
      <<Ch.niru, Ch.ru>>, <<Ch.ni, Ch.be>>, <<Ch.ni, Ch.BE>>, <<Ch.ta>> }

LookupInit ==
    /\ \E variant \in Variants, input_text \in LookupTexts, matching_text \in LookupTexts, max_results \in {1, 2, 14} :
           dc = [pc |-> "call", variant |-> variant, input_text |-> input_text,
                 matching_text |-> matching_text, max_results |-> max_results,
                 returned |-> <<>>]
    /\ nz = Off
    /\ ws = Off
    /\ tk = Off
    /\ df = Off
    /\ fn = Off

Lookup ==
    /\ dc.pc = "call"
    /\ dc' = [dc EXCEPT !.pc = "done",
                        !.returned = GetWordsOf(dc.variant, 1..Len(Entries), dc.input_text, dc.max_results, dc.matching_text)]
    /\ UNCHANGED <<nz, ws, tk, df, fn>>

LookupNext == Lookup

SpecLookup == LookupInit /\ [][LookupNext]_vars

\* the readings of a returned entry that equal the matching text under kana
\* folding
Equals(reading, matching_text) ==
    kana_to_hiragana(reading.text) = kana_to_hiragana(matching_text)

\* C14: in every entry get_words returns: if a kanji reading equals the
\* matching text under kana folding, the readings with match = true are
\* exactly the kanji readings that equal it; otherwise the kana readings
\* with match = true are exactly those that equal the matching text.
C14_SplitMatchPolicy ==
    dc.pc = "done" =>
        \A k \in 1..Len(dc.returned) :
            LET entry == dc.returned[k]
                kanji == entry.kanji_readings
                kana == entry.kana_readings
            IN  IF \E j \in 1..Len(kanji) : Equals(kanji[j], dc.matching_text)
                THEN /\ \A j \in 1..Len(kanji) :
                            kanji[j].match = Equals(kanji[j], dc.matching_text)
                     /\ \A j \in 1..Len(kana) : kana[j].match = FALSE
                ELSE \A j \in 1..Len(kana) :
                         kana[j].match = Equals(kana[j], dc.matching_text)


(***************************************************************************)
(* entry_matches_type run on its own: one call on an entry given by the    *)
(* POS tags of its senses and on a word-type mask.                         *)
(***************************************************************************)
PosTagLists ==
    { <<>>, <<"exp">>, <<"v1">>, <<"exp", "v5k">>, <<"n">>, <<"adj-i">>,
      <<"vk">>, <<"vs-i">>, <<"vs-s">>, <<"vz">>, <<"n", "vs">> }

SenseLists ==
    {<<>>} \cup {<<Sense(a, <<"eng">>, <<>>)>> : a \in PosTagLists}
           \cup {<<Sense(a, <<"eng">>, <<>>), Sense(b, <<"eng">>, <<>>)>> :
                     a \in {<<>>, <<"exp">>}, b \in PosTagLists}

TypeMasks == SUBSET (WordType.All \cup WordType.MasuStem)

TypeInit ==
    /\ \E senses \in SenseLists, word_type \in TypeMasks :
           fn = [pc |-> "call", entry |-> [senses |-> senses],
                 word_type |-> word_type, returned |-> FALSE]
    /\ nz = Off
    /\ ws = Off
    /\ tk = Off
    /\ df = Off
    /\ dc = Off

EntryMatchesType ==
    /\ fn.pc = "call"
    /\ fn' = [fn EXCEPT !.pc = "done",
                        !.returned = entry_matches_type(fn.entry, fn.word_type)]
    /\ UNCHANGED <<nz, ws, tk, df, dc>>

TypeNext == EntryMatchesType

SpecType == TypeInit /\ [][TypeNext]_vars

\* the POS tags of all senses of an entry
AllPosTags(entry) ==
    UNION {SeqSet(entry.senses[k].pos_tags) : k \in 1..Len(entry.senses)}

VerbTypes ==
    WordType.IchidanVerb \cup WordType.GodanVerb \cup WordType.KuruVerb
        \cup WordType.SuruVerb \cup WordType.SpecialSuruVerb

\* C15: entry_matches_type returns true for an entry whose POS tags are all
\* the expression tag when the mask holds a verb type, and false for every
\* mask when the entry has no POS tag.
C15_ExpressionsMatchVerbTypes ==
    fn.pc = "done" =>
        /\ (AllPosTags(fn.entry) = {"exp"} /\ fn.word_type \cap VerbTypes # {})
               => fn.returned = TRUE
        /\ AllPosTags(fn.entry) = {} => fn.returned = FALSE


(***************************************************************************)
(* One thread using one FastSQLiteDictionary: get_words calls and close    *)
(* calls in any order, one call per step.                                  *)
(***************************************************************************)
CacheSizes == {0, 1000}

\* the calls made: <<input_text, max_results, matching_text>>
CacheCalls ==
    { <<<<Ch.ni>>, 1, None>>,
      <<<<Ch.ni>>, 1, <<Ch.N, Ch.o, Ch.n, Ch.e>>>>,
      <<<<Ch.ni>>, 1, <<Ch.digit2, Ch.colon, Ch.ni>>>>,
      <<<<Ch.ni, Ch.colon, Ch.digit1>>, 2, <<Ch.ni>>>>,
      <<<<Ch.ni>>, 2, None>>,
      <<<<Ch.ni>>, 1, <<Ch.ni>>>>,
      <<<<Ch.ni, Ch.BE>>, 1, None>>,
      <<<<Ch.ta>>, 1, None>> }

CacheInit ==
    /\ \E variant \in Variants, cache_size \in CacheSizes :
           dc = [pc |-> "idle", self |-> NewDictionary(variant, cache_size, 1),
                 op |-> "new", input_text |-> <<>>, max_results |-> 0,
                 matching_text |-> None, outcome |-> "return", returned |-> <<>>]
    /\ nz = Off
    /\ ws = Off
    /\ tk = Off
    /\ df = Off
    /\ fn = Off

\* the state after a call that ended as done
Called(d, call, done) ==
    [d EXCEPT !.self = done.self, !.op = "get_words",
              !.input_text = call[1], !.max_results = call[2],
              !.matching_text = call[3],
              !.outcome = done.outcome,
              !.returned = done.returned]

CacheGetWords ==
    /\ dc.pc = "idle"
    /\ \E call \in CacheCalls :
           dc' = Called(dc, call, GetWordsCall(dc.self, 1, call[1], call[2], call[3]))
    /\ UNCHANGED <<nz, ws, tk, df, fn>>

CacheClose ==
    /\ dc.pc = "idle"
    /\ dc' = [dc EXCEPT !.self = close(dc.self), !.op = "close",
                        !.outcome = "return", !.returned = <<>>]
    /\ UNCHANGED <<nz, ws, tk, df, fn>>

CacheNext == CacheGetWords \/ CacheClose

SpecCache == CacheInit /\ [][CacheNext]_vars

\* C16: every get_words call returns what the same call returns on an
\* instance of the same class opened with cache_size = 0, whatever calls
\* were made before it.
C16_CacheTransparent ==
    (dc.pc = "idle" /\ dc.op = "get_words") =>
        dc.returned = Computed(dc.self.variant, dc.input_text, dc.max_results,
                               dc.matching_text)


(***************************************************************************)
(* One thread filling the cache: the lookups get_words("に", n, None) for  *)
(* n = 1, 2, 3, ... in this order, and close calls, after which the        *)
(* lookups start again at n = 1.  Every lookup finds the entries of に, so *)
(* every n is stored under a new key.                                      *)
(***************************************************************************)
MaxFill == 10002

\* max_results of the newest key of the cache, 0 for an empty cache
Newest(cache) == IF cache = <<>> THEN 0 ELSE cache[Len(cache)].hi

FillInit ==
    /\ \E variant \in Variants :
           dc = [pc |-> "fill", self |-> NewDictionary(variant, 1000, 1),
                 op |-> "new", max_results |-> 0, outcome |-> "return"]
    /\ nz = Off
    /\ ws = Off
    /\ tk = Off
    /\ df = Off
    /\ fn = Off

\* the state after a call that ended as done
Filled(d, max_results, done) ==
    [d EXCEPT !.self = done.self, !.op = "get_words",
              !.max_results = max_results, !.outcome = done.outcome]

\* the call get_words("\u306b", max_results)
FillCall(d, max_results) ==
    Filled(d, max_results, GetWordsCall(d.self, 1, <<Ch.ni>>, max_results, None))

FillGetWords ==
    /\ dc.pc = "fill"
    /\ Newest(dc.self.cache) < MaxFill
    /\ dc' = FillCall(dc, Newest(dc.self.cache) + 1)
    /\ UNCHANGED <<nz, ws, tk, df, fn>>

FillClose ==
    /\ dc.pc = "fill"
    /\ dc' = [dc EXCEPT !.self = close(dc.self), !.op = "close",
                        !.outcome = "return"]
    /\ UNCHANGED <<nz, ws, tk, df, fn>>

FillNext == FillGetWords \/ FillClose

SpecFill == FillInit /\ [][FillNext]_vars

\* C17: the cache never holds more than 10,000 entries.
C17_CacheAtMostLimit ==
    dc.pc = "fill" => CacheLen(dc.self.cache) <= CacheLimit


(***************************************************************************)
(* Several threads calling get_words on one FastSQLiteDictionary that      *)
(* thread 1 constructed.  The compiled method holds the interpreter lock   *)
(* except while sqlite3 runs a query, so a call is two steps: the part up  *)
(* to the first query (connection, cache lookup, cursor) and the part      *)
(* after the queries (entries, cache store, return).                       *)
(***************************************************************************)
Threads == {1, 2}

MaxThreadCalls == 2

ThreadCalls ==
    { <<<<Ch.ni>>, 1, None>>, <<<<Ch.ni>>, 2, None>>,
      <<<<Ch.ni, Ch.BE>>, 1, None>>, <<<<Ch.ta>>, 1, None>> }

ThreadsInit ==
    /\ \E variant \in Variants :
           dc = [pc |-> "threads", self |-> NewDictionary(variant, 1000, 1),
                 th |-> [t \in Threads |->
                            [pc |-> "idle", calls |-> 0, input_text |-> <<>>,
                             max_results |-> 0, matching_text |-> None,
                             outcome |-> "return", returned |-> <<>>]]]
    /\ nz = Off
    /\ ws = Off
    /\ tk = Off
    /\ df = Off
    /\ fn = Off

\* the state after thread t ran the first part of a call
Begun(d, t, call, begun) ==
    [d EXCEPT !.self = begun.self,
              !.th[t] = [pc |-> IF begun.outcome = "query"
                                THEN "query" ELSE "idle",
                         calls |-> @.calls + 1,
                         input_text |-> call[1],
                         max_results |-> call[2],
                         matching_text |-> call[3],
                         outcome |-> begun.outcome,
                         returned |-> begun.returned]]

\* the state after thread t ran the rest of its call
Finished(d, t, done) ==
    [d EXCEPT !.self = done.self,
              !.th[t] = [@ EXCEPT !.pc = "idle",
                                  !.outcome = done.outcome,
                                  !.returned = done.returned]]

ThreadBegin(t) ==
    /\ dc.pc = "threads"
    /\ dc.th[t].pc = "idle"
    /\ dc.th[t].calls < MaxThreadCalls
    /\ \E call \in ThreadCalls :
           dc' = Begun(dc, t, call, GetWordsBegin(dc.self, t, call[1], call[2], call[3]))
    /\ UNCHANGED <<nz, ws, tk, df, fn>>

ThreadFinish(t) ==
    /\ dc.pc = "threads"
    /\ dc.th[t].pc = "query"
    /\ dc' = Finished(dc, t, GetWordsFinish(dc.self, dc.th[t].input_text, dc.th[t].max_results, dc.th[t].matching_text, Computed(dc.self.variant, dc.th[t].input_text, dc.th[t].max_results, dc.th[t].matching_text)))
    /\ UNCHANGED <<nz, ws, tk, df, fn>>

ThreadsNext == \E t \in Threads : ThreadBegin(t) \/ ThreadFinish(t)

SpecThreads == ThreadsInit /\ [][ThreadsNext]_vars

\* C18: under every interleaving of the calls of the threads no call
\* raises, the cache keeps its bound, and every finished call has returned
\* what it returns when run alone.
C18_ConcurrentCallsSafe ==
    dc.pc = "threads" =>
        /\ \A t \in Threads : dc.th[t].outcome # "raise"
        /\ CacheLen(dc.self.cache) <= CacheLimit
        /\ \A t \in Threads :
               (dc.th[t].pc = "idle" /\ dc.th[t].calls > 0) =>
                   dc.th[t].returned =
                       Computed(dc.self.variant, dc.th[t].input_text,
                                dc.th[t].max_results, dc.th[t].matching_text)


(***************************************************************************)
(* tokenize against a dictionary that fails.  down is the set of positions *)
(* of the normalised text at which every get_words call raises.            *)
(* word_search and lookup_candidates have no handler, so the first call of *)
(* get_words ends the word search with the exception; the driver turns it  *)
(* into a token for a single code unit with no dictionary entry.           *)
(***************************************************************************)
MaxDown == 2

FailDictionaries == {{}, {1, 3}, {2, 4, 5}, 1..6}

\* word_search lines 169-172 and 186, lookup_candidates lines 278-283: the
\* loop is entered for a non-empty input that is not only digits, and the
\* first candidate of deinflect, the input itself, is looked up
CallsGetWords(current_input) ==
    current_input # <<>> /\ ~is_only_digits(current_input)

DictionaryRaises(t) ==
    /\ t.p < Len(t.norm)
    /\ t.p \in t.down
    /\ CallsGetWords(Slice(t.norm, t.p, Len(t.norm)))

\* the driver without a handler: the exception leaves tokenize
OnDictionaryFailure_Abort(t, orig_start) == [t EXCEPT !.pc = "raised"]

\* the driver's handler: an untagged token for one code unit, and on to p+1
OnDictionaryFailure(t, orig_start) ==
    [t EXCEPT
        !.tokens = Append(@, Token(Slice(t.text, orig_start, orig_start + 1),
                                   orig_start, orig_start + 1, 0, <<>>,
                                   FALSE, 0)),
        !.p = @ + 1,
        !.failed = Append(@, t.p)]

FailInit ==
    /\ tk \in [pc : {"call"},
               text : WordsOf(SearchPieces, MaxSearchPieces) \ {<<>>},
               dictionary : FailDictionaries,
               max_results : MaxResultsChoices,
               garbage : 0..MaxGarbage,
               down : SUBSET (0..MaxDown),
               norm : {<<>>},
               offset_map : {<<>>},
               p : {0},
               tokens : {<<>>},
               failed : {<<>>}]
    /\ nz = Off
    /\ ws = Off
    /\ df = Off
    /\ dc = Off
    /\ fn = Off

FailNormalize ==
    /\ tk.pc = "call"
    /\ LET r == normalize_input(tk.text, TRUE, TRUE, tk.garbage)
       IN  tk' = [tk EXCEPT !.pc = "loop",
                            !.norm = r.normalized,
                            !.offset_map = r.input_lengths]
    /\ UNCHANGED <<nz, ws, df, dc, fn>>

FailStep ==
    /\ tk.pc = "loop"
    /\ tk.p < Len(tk.norm)
    /\ Len(tk.tokens) <= Len(tk.norm)
    /\ tk' = IF DictionaryRaises(tk)
             THEN OnDictionaryFailure(tk, At(tk.offset_map, tk.p))
             ELSE TokenizeIteration(tk)
    /\ UNCHANGED <<nz, ws, df, dc, fn>>

FailReturn ==
    /\ tk.pc = "loop"
    /\ tk.p >= Len(tk.norm)
    /\ tk' = [tk EXCEPT !.pc = "done"]
    /\ UNCHANGED <<nz, ws, df, dc, fn>>

FailNext == FailNormalize \/ FailStep \/ FailReturn

SpecTokFail == FailInit /\ [][FailNext]_vars

AllMatches(input_text, dictionary, garbage) ==
    word_search(input_text, dictionary, Len(Entries), None, garbage).sorted

EntryIds(results) == {results[k].entry.entry_id : k \in 1..Len(results)}

\* result x is ranked strictly before result y by the sort order
RankedBefore(all, x, y) == TupleLess(sort_key(all, x), sort_key(all, y))

\* C20: the data word_search returns are the max_results best-ranked of all
\* matching results: as many as max_results allows, and no result left out
\* is ranked strictly before a returned one.
C20_BestRankedBeforeTruncation ==
    ws.pc = "done" =>
        LET all == AllMatches(ws.input_text, ws.dictionary, ws.garbage)
            data == ws.result.data
        IN  /\ EntryIds(data) \subseteq EntryIds(all)
            /\ Len(data) = IF Len(all) < ws.max_results
                           THEN Len(all) ELSE ws.max_results
            /\ \A i, j \in 1..Len(all) :
                   /\ all[i].entry.entry_id \notin EntryIds(data)
                   /\ all[j].entry.entry_id \in EntryIds(data)
                   => ~RankedBefore(all, all[i], all[j])


\* C21: the match_len word_search returns is the largest match_len among the
\* WordResults of the returned data.
C21_MatchLenIsLargestInData ==
    ws.pc = "done" /\ ws.result.found =>
        /\ \E k \in 1..Len(ws.result.data) :
               ws.result.data[k].match_len = ws.result.match_len
        /\ \A k \in 1..Len(ws.result.data) :
               ws.result.data[k].match_len <= ws.result.match_len


KanaPieces ==
    { <<Ch.a>>, <<Ch.a, Ch.choon>>, <<Ch.ni>>, <<Ch.ni, Ch.ya_s>>, <<Ch.ya_s>> }

KanaDictionaries == SUBSET {1, 9, 10}

KanaInit ==
    /\ ws \in [pc : {"call"},
               input_text : WordsOf(KanaPieces, MaxSearchPieces) \ {<<>>},
               dictionary : KanaDictionaries,
               max_results : MaxResultsChoices,
               garbage : 0..MaxGarbage,
               result : {NoResult}]
    /\ nz = Off
    /\ tk = Off
    /\ df = Off
    /\ dc = Off
    /\ fn = Off

WordSearchKana ==
    /\ ws.pc = "call"
    /\ ws' = [ws EXCEPT !.pc = "done",
                        !.result = word_search(ws.input_text, ws.dictionary,
                                               ws.max_results, None, ws.garbage)]
    /\ UNCHANGED <<nz, tk, df, dc, fn>>

KanaNext == WordSearchKana

SpecKana == KanaInit /\ [][KanaNext]_vars

\* s is a prefix of t
IsPrefix(s, t) == Len(s) <= Len(t) /\ SubSeq(t, 1, Len(s)) = s

\* C23: after a looked-up text that ends in a yoon, every text looked up in
\* a later iteration is at least 2 code units shorter: the prefix that ends
\* with the first character of the digraph is never looked up.
C23_YoonNeverSplit ==
    ws.pc = "done" =>
        LET lookups == ws.result.lookups
        IN  \A i, j \in 1..Len(lookups) :
                /\ i < j
                /\ ends_in_yoon(lookups[i].text)
                => \/ Len(lookups[j].text) = Len(lookups[i].text)
                   \/ Len(lookups[j].text) <= Len(lookups[i].text) - 2

\* a search that looked up a text ending in a yoon and then the text two
\* code units shorter
C23_Witness ==
    /\ ws.pc = "done"
    /\ \E i, j \in 1..Len(ws.result.lookups) :
          /\ i < j
          /\ ends_in_yoon(ws.result.lookups[i].text)
          /\ Len(ws.result.lookups[i].text) >= 3
          /\ ws.result.lookups[j].text =
                 SubSeq(ws.result.lookups[i].text, 1,
                        Len(ws.result.lookups[i].text) - 2)

\* C24: include_variants is true at a lookup exactly when no lookup before it
\* gave results; once it is false it stays false, only the current input
\* itself is looked up, and the current input is a prefix of the variation
\* that matched.
C24_VariantsLatch ==
    ws.pc = "done" =>
        LET lookups == ws.result.lookups
        IN  /\ \A i \in 1..Len(lookups) :
                   /\ lookups[i].include_variants = (lookups[i].found = 0)
                   /\ ~lookups[i].include_variants =>
                          lookups[i].text = lookups[i].current_input
            /\ \A i, j \in 1..Len(lookups) :
                   i < j /\ ~lookups[i].include_variants
                       => ~lookups[j].include_variants
            /\ \A i, j \in 1..Len(lookups) :
                   /\ i < j
                   /\ lookups[i].include_variants
                   /\ ~lookups[j].include_variants
                   /\ \A k \in (i + 1)..j : ~lookups[k].include_variants
                   => IsPrefix(lookups[j].text, lookups[i].text)

\* a search that matched its input and later looked up the prefix \u3042\u30fc
\* without expanding its long-vowel mark, although the dictionary holds the
\* expansion \u3042\u3042
C24_Witness ==
    /\ ws.pc = "done"
    /\ 9 \in ws.dictionary
    /\ \E i, j \in 1..Len(ws.result.lookups) :
          /\ i < j
          /\ ws.result.lookups[i].include_variants
          /\ ~ws.result.lookups[j].include_variants
          /\ ws.result.lookups[j].text = <<Ch.a, Ch.choon>>

(***************************************************************************)
(* Both deinflect implementations run on the same word, the one with the   *)
(* Python dict first, one iteration of a while loop per step.              *)
(***************************************************************************)
\* the longest word, in pieces, given to both implementations
MaxBothMorphemes == 2

BothInit ==
    /\ df = [pc |-> "idle"]
    /\ nz = Off
    /\ ws = Off
    /\ tk = Off
    /\ dc = Off
    /\ fn = Off

BothCall ==
    /\ df.pc = "idle"
    /\ \E word \in WordsOf(DeinflectPieces, MaxBothMorphemes) \ {<<>>} :
           df' = [pc |-> "dict", word |-> word, st |-> DeinflectStart(word),
                  returned |-> <<>>, map |-> DeinflectStart(word),
                  returned_map |-> <<>>]
    /\ UNCHANGED <<nz, ws, tk, dc, fn>>

DictStep ==
    /\ df.pc = "dict"
    /\ df.st.i < Len(df.st.result)
    /\ df' = [df EXCEPT !.st = DeinflectIteration(df.st)]
    /\ UNCHANGED <<nz, ws, tk, dc, fn>>

DictReturn ==
    /\ df.pc = "dict"
    /\ df.st.i >= Len(df.st.result)
    /\ df' = [df EXCEPT !.pc = "map",
                        !.returned = FilterCandidates(df.st.result)]
    /\ UNCHANGED <<nz, ws, tk, dc, fn>>

MapStep ==
    /\ df.pc = "map"
    /\ df.map.i < Len(df.map.result)
    /\ df' = [df EXCEPT !.map = DeinflectIterationMap(df.map)]
    /\ UNCHANGED <<nz, ws, tk, dc, fn>>

MapReturn ==
    /\ df.pc = "map"
    /\ df.map.i >= Len(df.map.result)
    /\ df' = [df EXCEPT !.pc = "done",
                        !.returned_map = FilterCandidates(df.map.result)]
    /\ UNCHANGED <<nz, ws, tk, dc, fn>>

BothRun == DictStep \/ DictReturn \/ MapStep \/ MapReturn

BothNext == BothCall \/ BothRun

SpecBoth == BothInit /\ [][BothNext]_vars

\* a call that has begun keeps running: a loop takes its next iteration and a
\* finished loop returns
SpecBothLive == SpecBoth /\ WF_vars(BothRun)

C29_SameCandidateList ==
    df.pc = "done" => df.returned_map = df.returned

(***************************************************************************)
(* Word lengths along a run of deinflect (the implementation with the      *)
(* Python dict), checked under SpecDeinflect.                              *)
(***************************************************************************)
\* C26, as stated: no candidate of a deinflect run, and so no returned
\* candidate, has a word longer than the input word (no derivation by a rule
\* or by Ichidan stem forwarding lengthens a word).
C26_NeverLongerThanInput ==
    df.pc \in {"loop", "done"} =>
        \A k \in 1..Len(df.st.result) :
            Len(df.st.result[k].word) <= Len(df.word)

\* c is parent forwarded as an Ichidan stem
ForwardedFrom(parent, c) ==
    /\ parent.type \cap (WordType.MasuStem \cup WordType.TaTeStem
                            \cup WordType.IrrealisStem) # {}
    /\ c.type = IchidanOrKuru
    /\ c.word = parent.word \o <<Ch.ru>>
    /\ Len(c.word) = Len(parent.word) + 1

\* c is parent with the ending of some rule replaced
DerivedByRule(parent, c) ==
    \E k \in 1..Len(DeinflectRules) :
        LET rule == DeinflectRules[k]
        IN  /\ Len(rule.from) <= Len(parent.word)
            /\ c.type = rule.toType
            /\ c.word = Slice(parent.word, 0, Len(parent.word) - Len(rule.from))
                            \o rule.to
            /\ Len(c.word) = Len(parent.word) - Len(rule.from) + Len(rule.to)

\* C26, amended: of the candidates one iteration of the loop appends, the one
\* made by Ichidan stem forwarding (the first, if any) is the iteration's
\* candidate followed by U+308B, exactly one code point longer, and every other
\* is made by a rule and has the length of the iteration's candidate minus
\* len(rule.from) plus len(rule.to).
C26_DerivedLength ==
    [][(df.pc = "loop" /\ df'.pc = "loop") =>
          LET parent == At(df.st.result, df.st.i)
              old_len == Len(df.st.result)
          IN  \A k \in (old_len + 1)..Len(df'.st.result) :
                  \/ k = old_len + 1 /\ ForwardedFrom(parent, df'.st.result[k])
                  \/ DerivedByRule(parent, df'.st.result[k])]_vars

\* deinflect has returned a candidate longer than the input word, made by
\* forwarding, and one shorter than it, made by rules
C26_Witness ==
    /\ df.pc = "done"
    /\ \E k \in 1..Len(df.returned) : Len(df.returned[k].word) > Len(df.word)
    /\ \E k \in 1..Len(df.returned) :
           /\ Len(df.returned[k].word) < Len(df.word)
           /\ df.returned[k].reason_chains # <<>>

(***************************************************************************)
(* The fusion of Causative over PotentialOrPassive, checked under          *)
(* SpecDeinflect.                                                          *)
(***************************************************************************)
\* the rule passes the checks of lines 99-122 on the candidate
RuleFires(this_candidate, rule) ==
    LET word_text == this_candidate.word
        from_len == Len(rule.from)
    IN  /\ from_len <= Len(word_text)
        /\ this_candidate.type \cap rule.fromType # {}
        /\ rule.from \in {Slice(word_text, Len(word_text) - from_len, Len(word_text)),
                          kana_to_hiragana(Slice(word_text, Len(word_text) - from_len,
                                                 Len(word_text)))}
        /\ Slice(word_text, 0, Len(word_text) - from_len) \o rule.to # <<>>
        /\ \A k \in 1..Len(this_candidate.reason_chains) :
               SeqSet(this_candidate.reason_chains[k]) \cap SeqSet(rule.reasons) = {}

\* a rule that begins with Causative fires on a candidate whose first chain
\* begins with PotentialOrPassive
CausativeOverPassive(this_candidate, rule) ==
    /\ rule.reasons # <<>>
    /\ rule.reasons[1] = "Causative"
    /\ this_candidate.reason_chains # <<>>
    /\ this_candidate.reason_chains[1] # <<>>
    /\ this_candidate.reason_chains[1][1] = "PotentialOrPassive"
    /\ RuleFires(this_candidate, rule)

RECURSIVE KeptOffsets(_, _, _, _, _, _)
KeptOffsets(normalized, input_lengths, i, u, kept, past) ==
    IF i >= Len(normalized) THEN Append(kept, past)
    ELSE LET units == Utf16Units(At(normalized, i))
         IN  IF At(normalized, i) = Ch.zwnj
             THEN KeptOffsets(normalized, input_lengths, i + 1, u + units,
                              kept, past)
             ELSE KeptOffsets(normalized, input_lengths, i + 1, u + units,
                              kept \o [k \in 1..units |-> At(input_lengths, u + k - 1)],
                              At(input_lengths, u + units))

\* C28: when normalize_input has returned with strip_zwnj set, the normalized
\* text holds no U+200C and, if any code point is left, the offset map is the
\* pre-strip entry of every surviving UTF-16 code unit, in order, followed by
\* the pre-strip entry just past the last surviving code unit.
C28_StripKeepsOffsets ==
    (nz.pc = "done" /\ nz.strip_zwnj) =>
        LET pre == to_normalized(IF nz.make_numbers_full_width
                                     THEN half_to_full_width_num(nz.input_text)
                                     ELSE nz.input_text)
        IN  /\ \A k \in 1..Len(nz.normalized) : nz.normalized[k] # Ch.zwnj
            /\ nz.normalized # <<>> =>
                   nz.input_lengths =
                       KeptOffsets(pre.normalized, pre.input_lengths, 0, 0, <<>>, 0)

(***************************************************************************)
(* sort_word_results run on its own, on a list of results for the readings *)
(* of three entries with reason chains of zero, one and two steps.         *)
(***************************************************************************)
MaxSortLen == 3

SortEntries ==
    { BuildEntry(1, <<Ch.ni>>), BuildEntry(3, <<Ch.ni>>),
      BuildEntry(4, <<Ch.ni, Ch.ru>>) }

SortChains == { <<>>, << <<"Past">> >>, << <<"PotentialOrPassive", "Past">> >> }

SortResults ==
    { WordResult(entry, 2, reason_chains) :
          entry \in SortEntries, reason_chains \in SortChains }

SortInit ==
    /\ ws \in [pc : {"call"},
               results : TextsUpTo(SortResults, MaxSortLen),
               returned : {<<>>}]
    /\ nz = Off
    /\ tk = Off
    /\ df = Off
    /\ dc = Off
    /\ fn = Off

SortWordResults ==
    /\ ws.pc = "call"
    /\ ws' = [ws EXCEPT !.pc = "done",
                        !.returned = sort_word_results(ws.results)]
    /\ UNCHANGED <<nz, tk, df, dc, fn>>

SortNext == SortWordResults

SpecSort == SortInit /\ [][SortNext]_vars

\* C30: in the list sort_word_results returns, a result never comes behind a
\* result with more deinflection steps in its own reason_chains (the longest
\* chain, 0 without chains), also when the two results have one entry_id.
C30_RankedByOwnSteps ==
    ws.pc = "done" =>
        \A a, b \in 1..Len(ws.returned) :
            ReasonSteps(ws.returned[a]) < ReasonSteps(ws.returned[b]) => a < b

====
